---------------------------- MODULE Spec2Model ----------------------------
(***************************************************************************)
(* A model of FUSTA's virtual filesystem engine (src/src/fs.rs) and of    *)
(* its FASTA reader (src/src/fasta.rs).                                    *)
(*                                                                         *)
(* Bytes are one-character strings; a file, a body, a label is a sequence  *)
(* of bytes.  An id is a sequence of bytes, a file name is a record        *)
(* [stem, ext].  Timestamps, uid, gid and permission bits are not part of  *)
(* the state: no handler reads them back.                                  *)
(***************************************************************************)
EXTENDS Integers, Sequences, FiniteSets, TLC

NL == "\n"
NUL == "NUL"
SP == " "
GT == ">"

\* fs.rs:31-33
FASTA_EXT == ".fa"
SEQ_EXT == ".seq"

\* fs.rs:36-51
ROOT_DIR == 1
FASTA_DIR == 2
SEQ_DIR == 3
APPEND_DIR == 4
SUBFRAGMENTS_DIR == 5
FIRST_INO == 20
INFO_FILE == 10
LABELS_FILE == 11
INFO_CSV_FILE == 12

Dirs == {ROOT_DIR, FASTA_DIR, SEQ_DIR, APPEND_DIR, SUBFRAGMENTS_DIR}
BuiltinFiles == {INFO_FILE, LABELS_FILE, INFO_CSV_FILE}

\* Option<T>
None == [some |-> FALSE, v |-> <<>>]
Some(x) == [some |-> TRUE, v |-> x]

Min(a, b) == IF a < b THEN a ELSE b
Max(a, b) == IF a > b THEN a ELSE b

\* s[from..to) of a 0-based byte string, for 0 <= from <= to <= Len(s)
Slice(s, from, to) == SubSeq(s, from + 1, to)

RECURSIVE Filter(_, _)
Filter(s, c) ==
    IF s = <<>> THEN <<>>
    ELSE IF Head(s) = c THEN Filter(Tail(s), c)
         ELSE <<Head(s)>> \o Filter(Tail(s), c)

RECURSIVE Flatten(_)
Flatten(ss) == IF ss = <<>> THEN <<>> ELSE Head(ss) \o Flatten(Tail(ss))

RECURSIVE SelectSeqIdx(_, _)
\* the positions of s, in order, whose element is in the set keep
SelectSeqIdx(s, keep) ==
    IF s = <<>> THEN <<>>
    ELSE LET r == SelectSeqIdx(SubSeq(s, 1, Len(s) - 1), keep)
         IN  IF s[Len(s)] \in keep THEN Append(r, Len(s)) ELSE r

\* the first position of byte c in s, 0 when there is none
IndexOf(s, c) ==
    IF \E i \in 1..Len(s) : s[i] = c
    THEN CHOOSE i \in 1..Len(s) : s[i] = c /\ \A j \in 1..(i - 1) : s[j] # c
    ELSE 0

-----------------------------------------------------------------------------
(* The FASTA reader, src/src/fasta.rs *)

RECURSIVE LinesOf(_)
\* BufReader::lines: split at '\n', the terminator dropped; a last line
\* without terminator is still a line
LinesOf(b) ==
    IF b = <<>> THEN <<>>
    ELSE LET k == IndexOf(b, NL)
         IN  IF k = 0 THEN <<b>>
             ELSE <<SubSeq(b, 1, k - 1)>> \o LinesOf(SubSeq(b, k + 1, Len(b)))

\* split(" "): the first token is the id, the rest joined is the name
HeaderId(h) ==
    LET k == IndexOf(h, SP) IN IF k = 0 THEN h ELSE SubSeq(h, 1, k - 1)

HeaderName(h) ==
    LET k == IndexOf(h, SP)
    IN  IF k = 0 THEN None ELSE Some(SubSeq(h, k + 1, Len(h)))

\* The raw bytes of a sequence: its body lines concatenated, newlines removed
BodySeq(lines, from, to) ==
    Flatten([i \in 1..(IF to >= from THEN to - from + 1 ELSE 0) |-> lines[from + i - 1]])

\* FastaReader::new
ReaderInit ==
    [current_header |-> None, current_start |-> 0, current_offset |-> 0,
     hline |-> 0, out |-> <<>>]

\* One line of the `while let` loop of FastaReader::next
ReaderLine(st, lines, i, keep_labels) ==
    LET line == lines[i]
        len == Len(line) + 1
        off == st.current_offset + len
        isHeader == Len(line) > 0 /\ line[1] = GT
    IN  IF ~isHeader THEN [st EXCEPT !.current_offset = off]
        ELSE IF st.current_header.some
        THEN [current_header |-> Some(Tail(line)),
              current_start |-> IF keep_labels THEN off - len ELSE off,
              current_offset |-> off,
              hline |-> i,
              out |-> Append(st.out,
                  [id |-> HeaderId(st.current_header.v),
                   name |-> HeaderName(st.current_header.v),
                   pos |-> IF keep_labels THEN <<st.current_start, off - len>>
                           ELSE <<st.current_start, off>>,
                   len |-> IF keep_labels THEN off - len - st.current_start
                           ELSE off - st.current_start - len,
                   seq |-> BodySeq(lines, st.hline + 1, i - 1)])]
        ELSE [st EXCEPT !.current_header = Some(Tail(line)),
                        !.current_start =
                            IF keep_labels THEN off - (IF off > 0 THEN len ELSE 0)
                            ELSE off,
                        !.current_offset = off,
                        !.hline = i]

RECURSIVE ReaderLoop(_, _, _, _)
ReaderLoop(st, lines, i, keep_labels) ==
    IF i > Len(lines) THEN st
    ELSE ReaderLoop(ReaderLine(st, lines, i, keep_labels), lines, i + 1, keep_labels)

\* FastaReader::next, collected: every fragment the iterator emits
FastaReader(bytes, keep_labels) ==
    LET lines == LinesOf(bytes)
        st == ReaderLoop(ReaderInit, lines, 1, keep_labels)
    IN  IF st.current_header.some
        THEN Append(st.out,
                 [id |-> HeaderId(st.current_header.v),
                  name |-> HeaderName(st.current_header.v),
                  pos |-> <<st.current_start, st.current_offset>>,
                  len |-> st.current_offset - st.current_start,
                  seq |-> BodySeq(lines, st.hline + 1, Len(lines))])
        ELSE st.out

-----------------------------------------------------------------------------
(* Backing and Fragment, src/src/fs.rs:137-397 *)

\* enum Backing: File(path, start, end) | Buffer | PureBuffer | MMap.
\* The path of a File backing is always the source file.  An MMap holds the
\* bytes of the mapped region: the source is only ever replaced by rename,
\* never written in place, so a mapping keeps the bytes it had when made.
BackingFile(start, end) == [kind |-> "File", start |-> start, end |-> end, bytes |-> <<>>]
BackingBuffer(b) == [kind |-> "Buffer", start |-> 0, end |-> 0, bytes |-> b]
BackingPureBuffer(b) == [kind |-> "PureBuffer", start |-> 0, end |-> 0, bytes |-> b]
BackingMMap(b) == [kind |-> "MMap", start |-> 0, end |-> 0, bytes |-> b]

\* Backing::len
BackingLen(d) == IF d.kind = "File" THEN d.end - d.start ELSE Len(d.bytes)

\* A result that may be a panic
Ok(x) == [ok |-> TRUE, v |-> x]
Panic == [ok |-> FALSE, v |-> <<>>]

\* Fragment::make_label
make_label(id, name) ==
    <<GT>> \o id \o (IF name.some THEN <<SP>> \o name.v ELSE <<>>) \o <<NL>>

\* Fragment::label
label(f) == make_label(f.id, f.name)

\* Fragment::label_size
label_size(f) == Len(label(f))

\* Fragment::data_size
data_size(f) == IF f.data.kind = "File" THEN f.data.end - f.data.start ELSE Len(f.data.bytes)

FileName(id, ext) == [stem |-> id, ext |-> ext]

\* refresh_virtual_files without the update of the .seq size
refresh_virtual_files_stale_seq(f) ==
    [f EXCEPT !.fasta_file.name = FileName(f.id, FASTA_EXT),
              !.fasta_file.size = label_size(f) + data_size(f),
              !.seq_file.name = FileName(f.id, SEQ_EXT)]

\* Fragment::refresh_virtual_files
refresh_virtual_files(f) ==
    [f EXCEPT !.fasta_file.name = FileName(f.id, FASTA_EXT),
              !.fasta_file.size = label_size(f) + data_size(f),
              !.seq_file.name = FileName(f.id, SEQ_EXT),
              !.seq_file.size = data_size(f)]

\* Fragment::new (with make_virtual_file)
NewFragment(id, name, data, fasta_ino, seq_ino) ==
    [id |-> id, name |-> name, data |-> data,
     fasta_file |-> [name |-> FileName(id, FASTA_EXT), ino |-> fasta_ino,
                     size |-> Len(make_label(id, name)) + BackingLen(data),
                     buf |-> <<>>],
     seq_file |-> [name |-> FileName(id, SEQ_EXT), ino |-> seq_ino,
                   size |-> BackingLen(data)]]

\* Fragment::rename
FragmentRename(f, new_id) == refresh_virtual_files([f EXCEPT !.id = new_id])

\* read_exact of n bytes at position pos of the file dsk
ReadExact(dsk, pos, n) ==
    IF pos + n <= Len(dsk) THEN Ok(Slice(dsk, pos, pos + n)) ELSE Panic

\* Fragment::data
data(f, dsk) ==
    IF f.data.kind = "File" THEN ReadExact(dsk, f.data.start, data_size(f))
    ELSE Ok(f.data.bytes)

\* Fragment::chunk
chunk(f, dsk, offset, size) ==
    IF f.data.kind = "File" THEN ReadExact(dsk, f.data.start + offset, size)
    ELSE LET start == offset
             end == Min(Len(f.data.bytes), offset + size)
         IN  IF start <= end THEN Ok(Slice(f.data.bytes, start, end)) ELSE Panic

\* iter.skip(n).take(k)
SkipTake(s, n, k) == IF n >= Len(s) THEN <<>> ELSE Slice(s, n, Min(Len(s), n + k))

\* Fragment::pure_chunk
pure_chunk(f, dsk, offset, size) ==
    CASE f.data.kind = "File" ->
           LET pos == f.data.start + offset
               rest == IF pos >= Len(dsk) THEN <<>> ELSE Slice(dsk, pos, Len(dsk))
           IN  Ok(SkipTake(Filter(rest, NL), offset, size))
      [] f.data.kind = "PureBuffer" ->
           IF offset + size <= Len(f.data.bytes)
           THEN Ok(Slice(f.data.bytes, offset, offset + size)) ELSE Panic
      [] OTHER -> Ok(SkipTake(Filter(f.data.bytes, NL), offset, size))

\* Vec::resize_with(size, Default::default)
Resize(b, size) ==
    IF size <= Len(b) THEN SubSeq(b, 1, size)
    ELSE b \o [i \in 1..(size - Len(b)) |-> NUL]

\* Fragment::extend (on a Buffer backing)
extend(f, size) == [f EXCEPT !.data.bytes = Resize(f.data.bytes, size)]

\* splice(start..start, data): the bytes are inserted, nothing is replaced
Splice_insert(b, start, bytes) ==
    SubSeq(b, 1, start) \o bytes \o SubSeq(b, start + 1, Len(b))

\* Vec::splice(start..end, data) with end - start = Len(data)
Splice(b, start, bytes) ==
    SubSeq(b, 1, start) \o bytes \o SubSeq(b, start + Len(bytes) + 1, Len(b))

\* Fragment::file_from_filename: "fa", "seq" or "none"
file_from_filename(f, name) ==
    IF f.fasta_file.name = name THEN "fa"
    ELSE IF f.seq_file.name = name THEN "seq" ELSE "none"

\* Fragment::file_from_ino
file_from_ino(f, ino) ==
    IF f.fasta_file.ino = ino THEN "fa"
    ELSE IF f.seq_file.ino = ino THEN "seq" ELSE "none"

\* is_fasta_char letting ' ' and '>' through
is_fasta_char_lenient(c) == c # NUL

\* fn is_fasta_char
is_fasta_char(c) == c \in {"A", "C", "G", "T", "a", "b", "c", "x", NL, "-", "_", ".", "+", "="}

-----------------------------------------------------------------------------
(* Bounds and inputs *)

\* the operations of one run
MaxOps == 2
\* the inode counter stops the allocating operations at this value
MaxIno == 27

a_id == <<"a">>
b_id == <<"b">>
c_id == <<"c">>

\* ">a\nAC\n>b x\nC\nA\n": two sequences, the second with a comment and a
\* two-line body
Src1 == <<GT, "a", NL, "A", "C", NL, GT, "b", SP, "x", NL, "C", NL, "A", NL>>
\* ">a\nA\n>a\nC\n": a duplicated id, which the load refuses
SrcDup == <<GT, "a", NL, "A", NL, GT, "a", NL, "C", NL>>
Sources == {Src1, SrcDup}

Caches == {"Mmap", "File", "RAM"}
Thresholds == {0, 4}

\* the threshold is read under the RAM policy only (fs.rs:643-645)
Settings ==
    {cfg \in [cache : Caches, concretize_threshold : Thresholds, no_overwrite : BOOLEAN] :
        cfg.cache # "RAM" => cfg.concretize_threshold = 0}

-----------------------------------------------------------------------------
(* FustaFS, src/src/fs.rs:444-956 *)

VARIABLES
    fragments,        \* Vec<Fragment>
    name2fragment,    \* HashMap id -> position (1-based here)
    ino2fragment,     \* HashMap ino -> position
    files,            \* the built-in text files
    current_ino,      \* the inode counter
    pending_appends,  \* BTreeMap basename -> PendingAppend
    subfragments,     \* MultiMap: key -> (ino, SubFragment) and ino -> key
    dirty,
    settings,
    disk,             \* the bytes of the source file
    tmp,              \* the bytes of `<source>#fusta#`, when it exists
    phase,            \* "mounted", "destroyed", "dropped", "panicked" or "killed"
    reply,            \* the last operation and its reply
    nops              \* the operations the run may still make

vars == <<fragments, name2fragment, ino2fragment, files, current_ino,
          pending_appends, subfragments, dirty, settings, disk, tmp, phase,
          reply, nops>>

\* The part of the state that concretize and refresh_metadata work on
Model == [fragments |-> fragments, name2fragment |-> name2fragment,
          ino2fragment |-> ino2fragment, files |-> files, dirty |-> dirty,
          disk |-> disk, tmp |-> tmp]

Positions(frs) == 1..Len(frs)

\* FustaFS::update_indices (collect::<HashMap>: a later entry with the same
\* key replaces an earlier one)
update_indices(m) ==
    LET frs == m.fragments
    IN [m EXCEPT
         !.name2fragment =
            [id \in {frs[i].id : i \in Positions(frs)} |->
                CHOOSE i \in Positions(frs) :
                    frs[i].id = id /\ \A j \in (i + 1)..Len(frs) : frs[j].id # id],
         !.ino2fragment =
            [ino \in {frs[i].fasta_file.ino : i \in Positions(frs)}
                     \cup {frs[i].seq_file.ino : i \in Positions(frs)} |->
                CHOOSE i \in Positions(frs) :
                    /\ ino \in {frs[i].fasta_file.ino, frs[i].seq_file.ino}
                    /\ \A j \in (i + 1)..Len(frs) :
                          ino \notin {frs[j].fasta_file.ino, frs[j].seq_file.ino}]]

\* FustaFS::make_labels_buffer
make_labels_buffer(frs) == Flatten([i \in Positions(frs) |-> label(frs[i])])

\* FustaFS::make_info_buffer and make_info_csv_buffer: the sequence count of
\* the header and one row (id, name, length) per fragment; the layout of the
\* table is not modelled
make_info_buffer(frs) ==
    [count |-> Len(frs),
     rows |-> [i \in Positions(frs) |-> <<frs[i].id, frs[i].name, data_size(frs[i])>>]]

\* FustaFS::refresh_metadata
refresh_metadata(m, force) ==
    IF m.dirty \/ force
    THEN update_indices(
            [m EXCEPT !.files =
                [info |-> make_info_buffer(m.fragments),
                 labels |-> make_labels_buffer(m.fragments),
                 labels_size |-> Len(make_labels_buffer(m.fragments))]])
    ELSE m

\* the sum of the Buffer backings (concretize, fs.rs:632-637)
RECURSIVE in_memory(_)
in_memory(frs) ==
    IF frs = <<>> THEN 0
    ELSE (IF Head(frs).data.kind = "Buffer" THEN Len(Head(frs).data.bytes) ELSE 0)
         + in_memory(Tail(frs))

\* what concretize writes for one fragment: label, body, and a '\n' when the
\* body is not empty and does not end with one (fs.rs:667-683)
Record(f, body) ==
    label(f) \o body \o (IF body # <<>> /\ body[Len(body)] # NL THEN <<NL>> ELSE <<>>)

RECURSIVE ConcretizeLoop(_, _, _, _)
\* The first k turns of the loop of concretize (fs.rs:665-687) from the state
\* st = [fragments, tmp, ok]: fragment i is written at the end of tmp and its
\* backing replaced by the File range of its body in tmp
ConcretizeLoop(st, dsk, i, k) ==
    IF i > k \/ ~st.ok THEN st
    ELSE LET f == st.fragments[i]
             d == data(f, dsk)
             last_start == Len(st.tmp) + label_size(f)
             written == st.tmp \o Record(f, d.v)
             g == refresh_virtual_files([f EXCEPT !.data = BackingFile(last_start, Len(written))])
         IN  IF ~d.ok THEN [st EXCEPT !.ok = FALSE]
             ELSE ConcretizeLoop([fragments |-> [st.fragments EXCEPT ![i] = g],
                                  tmp |-> written, ok |-> TRUE], dsk, i + 1, k)

\* concretize passing its second test whatever the cache policy
concretize_runs_any_cache(m, force, cfg) ==
    /\ m.dirty
    /\ ~(~force /\ in_memory(m.fragments) < cfg.concretize_threshold)

\* concretize passing its first test on a clean model too
concretize_runs_when_clean(m, force, cfg) ==
    ~(~force /\ (in_memory(m.fragments) < cfg.concretize_threshold \/ ~(cfg.cache = "RAM")))

\* whether concretize goes past its two early returns (fs.rs:627-653)
concretize_runs(m, force, cfg) ==
    /\ m.dirty
    /\ ~(~force /\ (in_memory(m.fragments) < cfg.concretize_threshold \/ ~(cfg.cache = "RAM")))

\* concretize without the rename of the temporary file over the source
concretize_no_rename(m, force, cfg) ==
    IF ~concretize_runs(m, force, cfg) THEN [m |-> m, ok |-> TRUE]
    ELSE LET st == ConcretizeLoop([fragments |-> m.fragments, tmp |-> <<>>, ok |-> TRUE],
                                  m.disk, 1, Len(m.fragments))
         IN  [m |-> [m EXCEPT !.fragments = st.fragments, !.tmp = Some(st.tmp),
                               !.dirty = ~st.ok],
              ok |-> st.ok]

\* concretize that leaves the dirty flag as it found it
concretize_dirty_left(m, force, cfg) ==
    IF ~concretize_runs(m, force, cfg) THEN [m |-> m, ok |-> TRUE]
    ELSE LET st == ConcretizeLoop([fragments |-> m.fragments, tmp |-> <<>>, ok |-> TRUE],
                                  m.disk, 1, Len(m.fragments))
         IN  IF st.ok
             THEN [m |-> [m EXCEPT !.fragments = st.fragments, !.disk = st.tmp,
                                   !.tmp = None],
                   ok |-> TRUE]
             ELSE [m |-> [m EXCEPT !.fragments = st.fragments, !.tmp = Some(st.tmp)],
                   ok |-> FALSE]

\* FustaFS::concretize.  The result has ok = FALSE when a body could not be
\* read (a panic): the temporary file is left behind, the source untouched.
concretize(m, force, cfg) ==
    IF ~concretize_runs(m, force, cfg) THEN [m |-> m, ok |-> TRUE]
    ELSE LET st == ConcretizeLoop([fragments |-> m.fragments, tmp |-> <<>>, ok |-> TRUE],
                                  m.disk, 1, Len(m.fragments))
         IN  IF st.ok
             THEN [m |-> [m EXCEPT !.fragments = st.fragments, !.disk = st.tmp,
                                   !.tmp = None, !.dirty = FALSE],
                   ok |-> TRUE]
             ELSE [m |-> [m EXCEPT !.fragments = st.fragments, !.tmp = Some(st.tmp)],
                   ok |-> FALSE]

\* the bytes mapped by MmapOptions::offset(start).len(len): past the end of
\* the file the page reads as zeros
Region(dsk, start, len) ==
    [i \in 1..len |-> IF start + i <= Len(dsk) THEN dsk[start + i] ELSE NUL]

\* the backing chosen by the cache policy (read_fasta, fs.rs:600-612)
LoadBacking(fr, dsk, cache) ==
    CASE cache = "Mmap" -> BackingMMap(Region(dsk, fr.pos[1], fr.len))
      [] cache = "File" -> BackingFile(fr.pos[1], fr.pos[2])
      [] OTHER -> BackingPureBuffer(fr.seq)

\* read_fasta taking one inode per fragment from the counter instead of two
read_fasta_one_ino(dsk, cfg) ==
    LET frs == FastaReader(dsk, cfg.cache = "RAM")
    IN  [ok |-> Cardinality({frs[i].id : i \in Positions(frs)}) = Len(frs),
         fragments |-> [i \in Positions(frs) |->
                          NewFragment(frs[i].id, frs[i].name,
                                      LoadBacking(frs[i], dsk, cfg.cache),
                                      FIRST_INO + (i - 1),
                                      FIRST_INO + (i - 1) + 1)],
         current_ino |-> FIRST_INO + 2 * Len(frs)]

\* FustaFS::read_fasta: the fragments of the source, or ok = FALSE when two
\* sequences share an id.  Fragment i takes the inodes FIRST_INO + 2(i-1)
\* and the next one.
read_fasta(dsk, cfg) ==
    LET frs == FastaReader(dsk, cfg.cache = "RAM")
    IN  [ok |-> Cardinality({frs[i].id : i \in Positions(frs)}) = Len(frs),
         fragments |-> [i \in Positions(frs) |->
                          NewFragment(frs[i].id, frs[i].name,
                                      LoadBacking(frs[i], dsk, cfg.cache),
                                      FIRST_INO + 2 * (i - 1),
                                      FIRST_INO + 2 * (i - 1) + 1)],
         current_ino |-> FIRST_INO + 2 * Len(frs)]

NoReply == [op |-> "init", status |-> "ok"]

\* FustaFS::new, before a run of at most `budget` operations
Mount(budget) ==
    \E cfg \in Settings, src \in Sources :
        LET r == read_fasta(src, cfg)
            m == refresh_metadata(
                    [fragments |-> r.fragments, name2fragment |-> <<>>,
                     ino2fragment |-> <<>>,
                     files |-> [info |-> [count |-> 0, rows |-> <<>>],
                                labels |-> <<>>, labels_size |-> 0],
                     dirty |-> FALSE, disk |-> src, tmp |-> None], TRUE)
        IN  /\ r.ok
            /\ settings = cfg
            /\ fragments = m.fragments
            /\ name2fragment = m.name2fragment
            /\ ino2fragment = m.ino2fragment
            /\ files = m.files
            /\ current_ino = r.current_ino
            /\ pending_appends = <<>>
            /\ subfragments = [values |-> <<>>, keys |-> <<>>]
            /\ dirty = FALSE
            /\ disk = src
            /\ tmp = None
            /\ phase = "mounted"
            /\ reply = NoReply
            /\ nops = budget

Init == Mount(MaxOps)

-----------------------------------------------------------------------------
(* Lookups in the model, fs.rs:701-751 and 860-882 *)

\* HashMap::get
Get(map, k) == IF k \in DOMAIN map THEN Some(map[k]) ELSE None

\* FustaFS::fragment_from_id: the position of the fragment; `&self.fragments[i]`
\* panics when the index holds a position past the end of the list
fragment_from_id(m, id) ==
    LET i == Get(m.name2fragment, id)
    IN  IF ~i.some THEN Ok(None)
        ELSE IF i.v \in Positions(m.fragments) THEN Ok(Some(i.v)) ELSE Panic

\* FustaFS::fragment_from_ino and mut_fragment_from_ino: a position or None
fragment_from_ino(m, ino) ==
    LET i == Get(m.ino2fragment, ino)
    IN  IF i.some /\ i.v \in Positions(m.fragments) THEN i ELSE None

\* name.strip_suffix(ext)
strip_suffix(name, ext) == IF name.ext = ext THEN Some(name.stem) ELSE None

\* FustaFS::fragment_from_fasta_filename and fragment_from_seq_filename
fragment_from_filename(m, name, ext) ==
    LET id == strip_suffix(name, ext)
        i == IF id.some THEN Get(m.name2fragment, id.v) ELSE None
    IN  IF i.some /\ i.v \in Positions(m.fragments) THEN i ELSE None

\* FustaFS::mut_fragment_from_seq_filename and mut_fragment_from_fasta_filename:
\* unwrap panics on a name without the extension, `&mut self.fragments[i]`
\* on a position past the end
mut_fragment_from_filename(m, name, ext) ==
    LET id == strip_suffix(name, ext)
        i == IF id.some THEN Get(m.name2fragment, id.v) ELSE None
    IN  IF ~id.some THEN Panic
        ELSE IF ~i.some THEN Ok(None)
        ELSE IF i.v \in Positions(m.fragments) THEN Ok(i) ELSE Panic

\* FustaFS::subfragment_from_ino (MultiMap::get_alt)
subfragment_from_ino(sfs, ino) ==
    IF ino \in DOMAIN sfs.keys /\ sfs.keys[ino] \in DOMAIN sfs.values
    THEN Some(sfs.values[sfs.keys[ino]]) ELSE None

\* FustaFS::is_fasta_file
is_fasta_file(m, ino) ==
    LET i == fragment_from_ino(m, ino)
    IN  i.some /\ m.fragments[i.v].fasta_file.ino = ino

\* FustaFS::is_seq_file
is_seq_file(m, ino) ==
    LET i == fragment_from_ino(m, ino)
    IN  i.some /\ m.fragments[i.v].seq_file.ino = ino

\* FustaFS::is_append_file
is_append_file(pas, ino) == \E k \in DOMAIN pas : pas[k].ino = ino

\* is_writeable taking both files of a fragment for writeable
is_writeable_any_file(m, pas, ino) == is_append_file(pas, ino) \/ fragment_from_ino(m, ino).some

\* FustaFS::is_writeable
is_writeable(m, pas, ino) == is_append_file(pas, ino) \/ is_seq_file(m, ino)

\* the pending append found by `find(|(_, p)| p.attrs.ino == ino)`
PendingKey(pas, ino) == CHOOSE k \in DOMAIN pas : pas[k].ino = ino

-----------------------------------------------------------------------------
(* The operations of `impl Filesystem for FustaFS`, fs.rs:963-1701 *)

Running == phase = "mounted" /\ nops > 0

\* The count of operations, the last conjunct of every action.  An operation
\* that leaves the whole state but its reply as it was (an observation, a
\* refusal) ends the run: whatever could follow it follows the state before it.
Count ==
    nops' = IF UNCHANGED <<fragments, name2fragment, ino2fragment, files, current_ino,
                           pending_appends, subfragments, dirty, disk, tmp, phase>>
            THEN 0 ELSE nops - 1

\* The end of a handler: the model it leaves and its reply.  A panic ends
\* the process.
Finish(m, rep) ==
    /\ fragments' = m.fragments
    /\ name2fragment' = m.name2fragment
    /\ ino2fragment' = m.ino2fragment
    /\ files' = m.files
    /\ dirty' = m.dirty
    /\ disk' = m.disk
    /\ tmp' = m.tmp
    /\ reply' = rep
    /\ UNCHANGED settings

\* The end of a FUSE operation: a panic ends the process
Reply(m, rep) ==
    /\ Finish(m, rep)
    /\ phase' = IF rep.status = "panic" THEN "panicked" ELSE phase

\* names of the get/ directory: `ID` or `ID:START-END`
GetName(id, coords) == [stem |-> id, coords |-> coords]

\* clear_coordinates (fs.rs:885-906)
clear_coordinates(start, end) ==
    LET s == IF start < 0 THEN 0 ELSE start
    IN  <<s, IF end < s THEN Max(s, end) ELSE end>>

\* FustaFS::create_subfragment: [sfs, ino (the counter), res].  The inode is
\* taken from the counter before anything is looked up.
create_subfragment(m, sfs, cur, name) ==
    LET ino == cur
        fr == fragment_from_id(m, name.stem)
    IN  IF ~fr.ok THEN [sfs |-> sfs, cur |-> cur + 1, status |-> "panic", attrs |-> None]
        ELSE IF ~fr.v.some THEN [sfs |-> sfs, cur |-> cur + 1, status |-> "ENOENT", attrs |-> None]
        ELSE IF name.coords.some
        THEN LET se == clear_coordinates(name.coords.v[1] - 1, name.coords.v[2])
                 key == [id |-> m.fragments[fr.v.v].id, range |-> Some(se)]
             IN  IF key \in DOMAIN sfs.values
                 THEN [sfs |-> sfs, cur |-> cur + 1, status |-> "ok",
                       attrs |-> Some([ino |-> sfs.values[key].ino, size |-> sfs.values[key].size])]
                 ELSE LET sf == [fragment |-> key.id, start |-> se[1], ino |-> ino,
                                 size |-> se[2] - se[1]]
                      IN  [sfs |-> [values |-> [k \in DOMAIN sfs.values \cup {key} |->
                                                   IF k = key THEN sf ELSE sfs.values[k]],
                                    keys |-> [i \in DOMAIN sfs.keys \cup {ino} |->
                                                   IF i = ino THEN key ELSE sfs.keys[i]]],
                           cur |-> cur + 1, status |-> "ok",
                           attrs |-> Some([ino |-> ino, size |-> sf.size])]
        ELSE LET key == [id |-> name.stem, range |-> None]
                 sf == [fragment |-> m.fragments[fr.v.v].id, start |-> 0, ino |-> ino,
                        size |-> BackingLen(m.fragments[fr.v.v].data)]
             IN  [sfs |-> [values |-> [k \in DOMAIN sfs.values \cup {key} |->
                                          IF k = key THEN sf ELSE sfs.values[k]],
                           keys |-> [i \in DOMAIN sfs.keys \cup {ino} |->
                                          IF i = ino THEN key ELSE sfs.keys[i]]],
                  cur |-> cur + 1, status |-> "ok",
                  attrs |-> Some([ino |-> ino, size |-> sf.size])]

\* the attribute block a reply carries: the inode and the size
Attrs(ino, size) == Some([ino |-> ino, size |-> size])

FileAttrs(f, which) ==
    IF which = "fa" THEN Attrs(f.fasta_file.ino, f.fasta_file.size)
    ELSE Attrs(f.seq_file.ino, f.seq_file.size)

\* the names of the root directory (lookup, fs.rs:967-992)
RootEntries ==
    [fasta |-> FASTA_DIR, seqs |-> SEQ_DIR, append |-> APPEND_DIR, get |-> SUBFRAGMENTS_DIR]

\* lookup in seqs/ or fasta/ (fs.rs:993-1006)
LookupFragmentFile(m, parent, name) ==
    LET i == fragment_from_filename(m, name, IF parent = SEQ_DIR THEN SEQ_EXT ELSE FASTA_EXT)
        which == IF i.some THEN file_from_filename(m.fragments[i.v], name) ELSE "none"
    IN  IF which = "none" THEN None ELSE FileAttrs(m.fragments[i.v], which)

\* FustaFS::lookup in seqs/ and fasta/
Lookup(parent, name) ==
    /\ Running
    /\ parent \in {SEQ_DIR, FASTA_DIR}
    /\ LET at == LookupFragmentFile(Model, parent, name)
       IN  Reply(Model, [op |-> "lookup", status |-> IF at.some THEN "ok" ELSE "ENOENT",
                          parent |-> parent, name |-> name, attrs |-> at])
    /\ UNCHANGED <<current_ino, pending_appends, subfragments>>
    /\ Count

\* FustaFS::lookup in get/
LookupGet(name) ==
    /\ Running
    /\ current_ino < MaxIno
    /\ LET r == create_subfragment(Model, subfragments, current_ino, name)
       IN  /\ subfragments' = r.sfs
           /\ current_ino' = r.cur
           /\ Reply(Model, [op |-> "lookup", status |-> r.status,
                             parent |-> SUBFRAGMENTS_DIR, name |-> name, attrs |-> r.attrs])
    /\ UNCHANGED pending_appends
    /\ Count

\* FustaFS::lookup in the root and under an unknown parent
LookupRoot(parent, name) ==
    /\ Running
    /\ parent \notin {SEQ_DIR, FASTA_DIR, SUBFRAGMENTS_DIR}
    /\ LET at == IF parent # ROOT_DIR THEN None
                 ELSE CASE name \in DOMAIN RootEntries -> Attrs(RootEntries[name], 0)
                        [] name = "labels.txt" -> Attrs(LABELS_FILE, files.labels_size)
                        [] name = "infos.txt" -> Attrs(INFO_FILE, 0)
                        [] name = "infos.csv" -> Attrs(INFO_CSV_FILE, 0)
                        [] OTHER -> None
       IN  Reply(Model, [op |-> "lookup", status |-> IF at.some THEN "ok" ELSE "ENOENT",
                          parent |-> parent, name |-> name, attrs |-> at])
    /\ UNCHANGED <<current_ino, pending_appends, subfragments>>
    /\ Count

\* FustaFS::getattr.  A pending append is in none of the maps getattr reads.
getattr(m, sfs, ino) ==
    CASE ino \in Dirs -> Attrs(ino, 0)
      [] ino = LABELS_FILE -> Attrs(ino, m.files.labels_size)
      [] ino \in {INFO_FILE, INFO_CSV_FILE} -> Attrs(ino, 0)
      [] ino \notin Dirs \cup BuiltinFiles /\ subfragment_from_ino(sfs, ino).some ->
            Attrs(subfragment_from_ino(sfs, ino).v.ino, subfragment_from_ino(sfs, ino).v.size)
      [] OTHER ->
            LET i == fragment_from_ino(m, ino)
                which == IF i.some THEN file_from_ino(m.fragments[i.v], ino) ELSE "none"
            IN  IF which = "none" THEN None ELSE FileAttrs(m.fragments[i.v], which)

Getattr(ino) ==
    /\ Running
    /\ LET at == getattr(Model, subfragments, ino)
       IN  Reply(Model, [op |-> "getattr", status |-> IF at.some THEN "ok" ELSE "ENOENT",
                          ino |-> ino, attrs |-> at])
    /\ UNCHANGED <<current_ino, pending_appends, subfragments>>
    /\ Count

\* read of a built-in text file (fs.rs:1064-1081): `&data[start..end]`
ReadBuffer(buf, offset, size) ==
    LET end == Min(offset + size, Len(buf))
    IN  IF offset <= end THEN Ok(Slice(buf, offset, end)) ELSE Panic

\* read of a fragment's .fa file (fs.rs:1095-1129): [f, res], the fragment
\* with its header buffer and the bytes replied
ReadFasta(f, dsk, offset, size) ==
    IF offset > label_size(f)
    THEN [f |-> f, res |-> chunk(f, dsk, offset - label_size(f), size)]
    ELSE LET end == offset + size
             data_chunk == chunk(f, dsk, 0, Min(data_size(f), size))
             all == label(f) \o data_chunk.v
             buf == IF end > Len(f.fasta_file.buf)
                    THEN SubSeq(all, 1, Min(end, Len(all)))
                    ELSE f.fasta_file.buf
             to == Min(end, Len(buf))
         IN  IF ~data_chunk.ok THEN [f |-> f, res |-> Panic]
             ELSE [f |-> [f EXCEPT !.fasta_file.buf = buf],
                   res |-> IF offset <= to THEN Ok(Slice(buf, offset, to)) ELSE Panic]

\* FustaFS::read: [m, status, data]
read(m, sfs, ino, offset, size) ==
    CASE ino = LABELS_FILE ->
            LET r == ReadBuffer(m.files.labels, offset, size)
            IN  [m |-> m, status |-> IF r.ok THEN "ok" ELSE "panic", data |-> r.v]
      [] ino \in {INFO_FILE, INFO_CSV_FILE} ->
            \* the text of the two tables is not modelled
            [m |-> m, status |-> "ok", data |-> <<>>]
      [] ino \notin BuiltinFiles /\ ino \in DOMAIN m.ino2fragment ->
            LET i == fragment_from_ino(m, ino)
                f == m.fragments[i.v]
                which == file_from_ino(f, ino)
            IN  IF ~i.some THEN [m |-> m, status |-> "none", data |-> <<>>]
                ELSE IF which = "none" THEN [m |-> m, status |-> "panic", data |-> <<>>]
                ELSE IF which = "fa"
                THEN LET r == ReadFasta(f, m.disk, offset, size)
                     IN  [m |-> [m EXCEPT !.fragments[i.v] = r.f],
                          status |-> IF r.res.ok THEN "ok" ELSE "panic", data |-> r.res.v]
                ELSE LET r == chunk(f, m.disk, offset, size)
                     IN  [m |-> m, status |-> IF r.ok THEN "ok" ELSE "panic", data |-> r.v]
      [] ino \notin BuiltinFiles /\ ino \notin DOMAIN m.ino2fragment
            /\ subfragment_from_ino(sfs, ino).some ->
            LET sf == subfragment_from_ino(sfs, ino).v
                fr == fragment_from_id(m, sf.fragment)
                r == IF fr.ok /\ fr.v.some
                     THEN pure_chunk(m.fragments[fr.v.v], m.disk, offset + sf.start, size)
                     ELSE Panic
            IN  IF ~fr.ok THEN [m |-> m, status |-> "panic", data |-> <<>>]
                ELSE IF ~fr.v.some THEN [m |-> m, status |-> "ENOENT", data |-> <<>>]
                ELSE [m |-> m, status |-> IF r.ok THEN "ok" ELSE "panic", data |-> r.v]
      [] OTHER -> [m |-> m, status |-> "ENOENT", data |-> <<>>]

Read(ino, offset, size) ==
    /\ Running
    /\ LET r == read(Model, subfragments, ino, offset, size)
       IN  Reply(r.m, [op |-> "read", status |-> r.status, ino |-> ino,
                        offset |-> offset, size |-> size, data |-> r.data])
    /\ UNCHANGED <<current_ino, pending_appends, subfragments>>
    /\ Count

\* FustaFS::readdir, from offset 0: the entries (inode, name) after "." and ".."
readdir(m, ino) ==
    CASE ino = ROOT_DIR ->
            Some(<<<<FASTA_DIR, "fasta">>, <<SEQ_DIR, "seqs">>, <<APPEND_DIR, "append">>,
                   <<SUBFRAGMENTS_DIR, "get">>, <<INFO_FILE, "infos.txt">>,
                   <<LABELS_FILE, "labels.txt">>, <<INFO_CSV_FILE, "infos.csv">>>>)
      [] ino = SEQ_DIR ->
            Some([i \in Positions(m.fragments) |->
                    <<m.fragments[i].seq_file.ino, m.fragments[i].seq_file.name>>])
      [] ino = FASTA_DIR ->
            Some([i \in Positions(m.fragments) |->
                    <<m.fragments[i].fasta_file.ino, m.fragments[i].fasta_file.name>>])
      [] ino \in {APPEND_DIR, SUBFRAGMENTS_DIR} -> Some(<<>>)
      [] OTHER -> None

Readdir(ino) ==
    /\ Running
    /\ LET r == readdir(Model, ino)
       IN  Reply(Model, [op |-> "readdir", status |-> IF r.some THEN "ok" ELSE "ENOENT",
                          ino |-> ino, entries |-> r.v])
    /\ UNCHANGED <<current_ino, pending_appends, subfragments>>
    /\ Count

\* the Buffer backing a write or a resize starts from (fs.rs:1361-1363 and
\* 1488-1490): an Ok fragment, or a panic when the body cannot be read
ToBuffer(f, dsk) ==
    IF f.data.kind = "Buffer" THEN Ok(f)
    ELSE LET d == data(f, dsk)
         IN  IF d.ok THEN Ok([f EXCEPT !.data = BackingBuffer(d.v)]) ELSE Panic

\* the write to a fragment (fs.rs:1356-1382)
WriteFragment(f, dsk, offset, bytes) ==
    LET b == ToBuffer(f, dsk)
        max_size == offset + Len(bytes)
        e == IF max_size > data_size(b.v) THEN extend(b.v, max_size) ELSE b.v
    IN  IF ~b.ok THEN Panic
        ELSE Ok(refresh_virtual_files(
                  [e EXCEPT !.data.bytes = Splice(e.data.bytes, offset, bytes)]))

\* the write to a pending append (fs.rs:1384-1398)
WritePending(p, offset, bytes) ==
    LET end == offset + Len(bytes)
        d == IF end > Len(p.data) THEN Resize(p.data, end) ELSE p.data
    IN  [p EXCEPT !.data = Splice(d, offset, bytes)]

\* write switching every fragment, not the written one only, to a buffer
write_switching_all(m, pas, ino, offset, bytes) ==
    IF ~is_writeable(m, pas, ino)
    THEN [m |-> m, pas |-> pas, status |-> "EACCES", written |-> 0]
    ELSE IF ~(\A k \in 1..Len(bytes) : is_fasta_char(bytes[k]))
    THEN [m |-> m, pas |-> pas, status |-> "EIO", written |-> 0]
    ELSE IF fragment_from_ino(m, ino).some
    THEN LET i == fragment_from_ino(m, ino).v
             w == WriteFragment(m.fragments[i], m.disk, offset, bytes)
             switched == [j \in Positions(m.fragments) |->
                             IF ToBuffer(m.fragments[j], m.disk).ok
                             THEN ToBuffer(m.fragments[j], m.disk).v ELSE m.fragments[j]]
         IN  IF ~w.ok THEN [m |-> m, pas |-> pas, status |-> "panic", written |-> 0]
             ELSE [m |-> [m EXCEPT !.fragments = [switched EXCEPT ![i] = w.v], !.dirty = TRUE],
                   pas |-> pas, status |-> "ok", written |-> Len(bytes)]
    ELSE IF is_append_file(pas, ino)
    THEN LET k == PendingKey(pas, ino)
         IN  [m |-> m, pas |-> [pas EXCEPT ![k] = WritePending(pas[k], offset, bytes)],
              status |-> "ok", written |-> Len(bytes)]
    ELSE [m |-> m, pas |-> pas, status |-> "ENOENT", written |-> 0]

\* FustaFS::write: [m, pas, status, written]
write(m, pas, ino, offset, bytes) ==
    IF ~is_writeable(m, pas, ino)
    THEN [m |-> m, pas |-> pas, status |-> "EACCES", written |-> 0]
    ELSE IF ~(\A k \in 1..Len(bytes) : is_fasta_char(bytes[k]))
    THEN [m |-> m, pas |-> pas, status |-> "EIO", written |-> 0]
    ELSE IF fragment_from_ino(m, ino).some
    THEN LET i == fragment_from_ino(m, ino).v
             w == WriteFragment(m.fragments[i], m.disk, offset, bytes)
         IN  IF ~w.ok THEN [m |-> m, pas |-> pas, status |-> "panic", written |-> 0]
             ELSE [m |-> [m EXCEPT !.fragments[i] = w.v, !.dirty = TRUE],
                   pas |-> pas, status |-> "ok", written |-> Len(bytes)]
    ELSE IF is_append_file(pas, ino)
    THEN LET k == PendingKey(pas, ino)
         IN  [m |-> m, pas |-> [pas EXCEPT ![k] = WritePending(pas[k], offset, bytes)],
              status |-> "ok", written |-> Len(bytes)]
    ELSE [m |-> m, pas |-> pas, status |-> "ENOENT", written |-> 0]

Write(ino, offset, bytes) ==
    /\ Running
    /\ LET r == write(Model, pending_appends, ino, offset, bytes)
       IN  /\ pending_appends' = r.pas
           /\ Reply(r.m, [op |-> "write", status |-> r.status, ino |-> ino,
                           offset |-> offset, data |-> bytes, written |-> r.written])
    /\ UNCHANGED <<current_ino, subfragments>>
    /\ Count

\* the size request of setattr leaving a PureBuffer when the size is 0
SetSize_pure_on_truncate(f, dsk, which, size, was_dirty) ==
    LET b == ToBuffer(f, dsk)
        g == IF size = 0
             THEN Ok(refresh_virtual_files([f EXCEPT !.data = BackingPureBuffer(<<>>)]))
             ELSE IF size # data_size(f)
             THEN (IF b.ok THEN Ok(refresh_virtual_files(extend(b.v, size))) ELSE Panic)
             ELSE Ok(f)
        h == IF which = "fa" THEN [g.v EXCEPT !.fasta_file.size = size]
             ELSE [g.v EXCEPT !.seq_file.size = size]
    IN  IF ~g.ok THEN [ok |-> FALSE, f |-> f, dirty |-> was_dirty]
        ELSE [ok |-> TRUE, f |-> h,
              dirty |-> was_dirty \/ (size # 0 /\ size # data_size(f))]

\* the size request of setattr on a writeable fragment file (fs.rs:1473-1500):
\* [f, dirty]
SetSize(f, dsk, which, size, was_dirty) ==
    LET b == ToBuffer(f, dsk)
        g == IF size = 0 THEN Ok(refresh_virtual_files([f EXCEPT !.data = BackingBuffer(<<>>)]))
             ELSE IF size # data_size(f)
             THEN (IF b.ok THEN Ok(refresh_virtual_files(extend(b.v, size))) ELSE Panic)
             ELSE Ok(f)
        h == IF which = "fa" THEN [g.v EXCEPT !.fasta_file.size = size]
             ELSE [g.v EXCEPT !.seq_file.size = size]
    IN  IF ~g.ok THEN [ok |-> FALSE, f |-> f, dirty |-> was_dirty]
        ELSE [ok |-> TRUE, f |-> h,
              dirty |-> was_dirty \/ (size # 0 /\ size # data_size(f))]

\* FustaFS::setattr with an optional size: [m, pas, status, attrs]
setattr(m, pas, ino, size) ==
    IF ino \in {ROOT_DIR, SEQ_DIR, FASTA_DIR} \cup BuiltinFiles
    THEN [m |-> m, pas |-> pas, status |-> "EACCES", attrs |-> None]
    ELSE IF fragment_from_ino(m, ino).some
    THEN LET i == fragment_from_ino(m, ino).v
             f == m.fragments[i]
             which == file_from_ino(f, ino)
             r == IF size.some THEN SetSize(f, m.disk, which, size.v, m.dirty)
                  ELSE [ok |-> TRUE, f |-> f, dirty |-> m.dirty]
         IN  IF ~is_writeable(m, pas, ino)
             THEN [m |-> m, pas |-> pas, status |-> "EACCES", attrs |-> None]
             ELSE IF which = "none" \/ ~r.ok
             THEN [m |-> m, pas |-> pas, status |-> "panic", attrs |-> None]
             ELSE [m |-> [m EXCEPT !.fragments[i] = r.f, !.dirty = r.dirty],
                   pas |-> pas, status |-> "ok", attrs |-> FileAttrs(r.f, which)]
    ELSE IF is_append_file(pas, ino)
    THEN LET k == PendingKey(pas, ino)
         IN  IF size.some
             THEN [m |-> m, pas |-> [pas EXCEPT ![k].data = Resize(pas[k].data, size.v)],
                   status |-> "ok", attrs |-> Attrs(pas[k].ino, 0)]
             ELSE [m |-> m, pas |-> pas, status |-> "none", attrs |-> None]
    ELSE [m |-> m, pas |-> pas, status |-> "ENOENT", attrs |-> None]

Setattr(ino, size) ==
    /\ Running
    /\ LET r == setattr(Model, pending_appends, ino, size)
       IN  /\ pending_appends' = r.pas
           /\ Reply(r.m, [op |-> "setattr", status |-> r.status, ino |-> ino,
                           size |-> size, attrs |-> r.attrs])
    /\ UNCHANGED <<current_ino, subfragments>>
    /\ Count

\* mknod reserving one inode, not two, for the files of the fragment to come
mknod_one_reserved(m, pas, cur, cfg, parent, basename) ==
    IF parent # APPEND_DIR
    THEN [pas |-> pas, cur |-> cur, status |-> "EACCES", attrs |-> None]
    ELSE IF (\E i \in Positions(m.fragments) : m.fragments[i].id = basename) /\ cfg.no_overwrite
    THEN [pas |-> pas, cur |-> cur, status |-> "EEXIST", attrs |-> None]
    ELSE LET p == [data |-> <<>>, ino |-> cur, seq_ino |-> cur + 1, fasta_ino |-> cur + 1]
         IN  [pas |-> [k \in DOMAIN pas \cup {basename} |-> IF k = basename THEN p ELSE pas[k]],
              cur |-> cur + 2, status |-> "ok", attrs |-> Attrs(cur, 0)]

\* mknod that takes its three inodes and leaves the counter where it was
mknod_counter_kept(m, pas, cur, cfg, parent, basename) ==
    IF parent # APPEND_DIR
    THEN [pas |-> pas, cur |-> cur, status |-> "EACCES", attrs |-> None]
    ELSE IF (\E i \in Positions(m.fragments) : m.fragments[i].id = basename) /\ cfg.no_overwrite
    THEN [pas |-> pas, cur |-> cur, status |-> "EEXIST", attrs |-> None]
    ELSE LET p == [data |-> <<>>, ino |-> cur, seq_ino |-> cur + 1, fasta_ino |-> cur + 2]
         IN  [pas |-> [k \in DOMAIN pas \cup {basename} |-> IF k = basename THEN p ELSE pas[k]],
              cur |-> cur, status |-> "ok", attrs |-> Attrs(cur, 0)]

\* FustaFS::mknod: [pas, cur, status, attrs].  The basename is the name
\* without its extension.
mknod(m, pas, cur, cfg, parent, basename) ==
    IF parent \in {ROOT_DIR, SEQ_DIR, FASTA_DIR, SUBFRAGMENTS_DIR}
    THEN [pas |-> pas, cur |-> cur, status |-> "EACCES", attrs |-> None]
    ELSE IF parent # APPEND_DIR
    THEN [pas |-> pas, cur |-> cur, status |-> "ENOENT", attrs |-> None]
    ELSE IF (\E i \in Positions(m.fragments) : m.fragments[i].id = basename) /\ cfg.no_overwrite
    THEN [pas |-> pas, cur |-> cur, status |-> "EEXIST", attrs |-> None]
    ELSE LET p == [data |-> <<>>, ino |-> cur, seq_ino |-> cur + 1, fasta_ino |-> cur + 2]
         IN  [pas |-> [k \in DOMAIN pas \cup {basename} |-> IF k = basename THEN p ELSE pas[k]],
              cur |-> cur + 3, status |-> "ok", attrs |-> Attrs(cur, 0)]

Mknod(parent, basename) ==
    /\ Running
    /\ current_ino + 2 < MaxIno
    /\ LET r == mknod(Model, pending_appends, current_ino, settings, parent, basename)
       IN  /\ pending_appends' = r.pas
           /\ current_ino' = r.cur
           /\ Reply(Model, [op |-> "mknod", status |-> r.status, parent |-> parent,
                             name |-> basename, attrs |-> r.attrs])
    /\ UNCHANGED subfragments
    /\ Count

\* Vec::retain: the fragments at the positions in keep, in order
Retain(frs, keep) ==
    LET idx == SelectSeqIdx(frs, {frs[i] : i \in keep})
    IN  [k \in 1..Len(idx) |-> frs[idx[k]]]

\* the end of a handler whose last steps are concretize and refresh_metadata
Concluded(c, status) == [m |-> c.m, status |-> IF c.ok THEN status ELSE "panic"]

\* FustaFS::unlink: [m, status]
unlink(m, cfg, parent, name) ==
    CASE parent = ROOT_DIR -> [m |-> m, status |-> "none"]
      [] parent \in {SEQ_DIR, FASTA_DIR} ->
            IF LookupFragmentFile(m, parent, name).some
            THEN LET kept == Retain(m.fragments,
                                {i \in Positions(m.fragments) :
                                    /\ m.fragments[i].fasta_file.name # name
                                    /\ m.fragments[i].seq_file.name # name})
                     m1 == [m EXCEPT !.fragments = kept,
                                     !.dirty = m.dirty \/ Len(kept) # Len(m.fragments)]
                 IN  Concluded(concretize(refresh_metadata(m1, FALSE), FALSE, cfg), "ok")
            ELSE [m |-> m, status |-> "ENOENT"]
      [] parent = APPEND_DIR -> [m |-> m, status |-> "EACCES"]
      [] OTHER -> [m |-> m, status |-> "ENOENT"]

Unlink(parent, name) ==
    /\ Running
    /\ LET r == unlink(Model, settings, parent, name)
       IN  Reply(r.m, [op |-> "unlink", status |-> r.status, parent |-> parent, name |-> name])
    /\ UNCHANGED <<current_ino, pending_appends, subfragments>>
    /\ Count

\* fs.rs:33
DOTLESS_SEQ_EXT == ".seq"

\* Path::extension: the part after the last dot, without the dot
Extension(name) ==
    CASE name.ext = SEQ_EXT -> Some("seq")
      [] name.ext = FASTA_EXT -> Some("fa")
      [] OTHER -> None

ExtBytes(name) ==
    CASE name.ext = SEQ_EXT -> <<".", "s", "e", "q">>
      [] name.ext = FASTA_EXT -> <<".", "f", "a">>
      [] OTHER -> <<>>

\* the new id rename derives from newname (fs.rs:1554-1569): the file stem
\* when the extension equals DOTLESS_SEQ_EXT, else the whole name
NewId(newname) ==
    IF Extension(newname).some /\ Extension(newname).v = DOTLESS_SEQ_EXT
    THEN newname.stem
    ELSE newname.stem \o ExtBytes(newname)

\* FustaFS::rename: [m, status]
rename(m, cfg, parent, name, newparent, newname) ==
    CASE parent \in {ROOT_DIR, APPEND_DIR, SUBFRAGMENTS_DIR} -> [m |-> m, status |-> "EACCES"]
      [] parent \in {SEQ_DIR, FASTA_DIR} ->
            IF newparent # parent THEN [m |-> m, status |-> "EACCES"]
            ELSE LET new_id == NewId(newname)
                     replaced == fragment_from_id(m, new_id)
                     m1 == IF replaced.ok /\ replaced.v.some
                           THEN [m EXCEPT !.fragments =
                                    Retain(m.fragments, {i \in Positions(m.fragments) :
                                                            m.fragments[i].id # new_id})]
                           ELSE m
                     t == mut_fragment_from_filename(m1, name,
                              IF parent = SEQ_DIR THEN SEQ_EXT ELSE FASTA_EXT)
                     m2 == [m1 EXCEPT !.fragments[t.v.v] = FragmentRename(m1.fragments[t.v.v], new_id),
                                      !.dirty = TRUE]
                     c == concretize(m2, FALSE, cfg)
                 IN  IF ~replaced.ok THEN [m |-> m, status |-> "panic"]
                     ELSE IF replaced.v.some /\ cfg.no_overwrite THEN [m |-> m, status |-> "EACCES"]
                     ELSE IF ~t.ok THEN [m |-> m1, status |-> "panic"]
                     ELSE IF ~t.v.some THEN [m |-> m1, status |-> "ENOENT"]
                     ELSE IF ~c.ok THEN [m |-> c.m, status |-> "panic"]
                     ELSE [m |-> refresh_metadata(c.m, FALSE), status |-> "ok"]
      [] OTHER -> [m |-> m, status |-> "ENOENT"]

Rename(parent, name, newparent, newname) ==
    /\ Running
    /\ LET r == rename(Model, settings, parent, name, newparent, newname)
       IN  Reply(r.m, [op |-> "rename", status |-> r.status, parent |-> parent, name |-> name,
                        newparent |-> newparent, newname |-> newname])
    /\ UNCHANGED <<current_ino, pending_appends, subfragments>>
    /\ Count

\* the fragments release makes of a pending append p whose buffer parses into
\* new_fragments (fs.rs:1661-1691)
Integrate(frs, new_fragments, p, cfg) ==
    LET new_keys == {new_fragments[i].id : i \in 1..Len(new_fragments)}
        old_keys == {frs[i].id : i \in Positions(frs)}
        kept == IF ~cfg.no_overwrite
                THEN Retain(frs, {i \in Positions(frs) : frs[i].id \notin new_keys})
                ELSE frs
        taken == SelectSeqIdx(new_fragments,
                     {new_fragments[i] : i \in {j \in 1..Len(new_fragments) :
                         ~(new_fragments[j].id \in old_keys /\ cfg.no_overwrite)}})
    IN  kept \o [k \in 1..Len(taken) |->
                    NewFragment(new_fragments[taken[k]].id, new_fragments[taken[k]].name,
                                BackingPureBuffer(new_fragments[taken[k]].seq),
                                p.seq_ino, p.fasta_ino)]

\* FustaFS::release: [m, status]
release(m, pas, cfg, ino) ==
    IF is_writeable(m, pas, ino)
    THEN LET m1 == IF DOMAIN pas = {} THEN m
                   ELSE [m EXCEPT !.dirty = TRUE,
                                  !.fragments =
                                      IF is_append_file(pas, ino)
                                      THEN Integrate(m.fragments,
                                               FastaReader(pas[PendingKey(pas, ino)].data, TRUE),
                                               pas[PendingKey(pas, ino)], cfg)
                                      ELSE m.fragments]
             c == concretize(m1, FALSE, cfg)
         IN  IF c.ok THEN [m |-> refresh_metadata(c.m, FALSE), status |-> "ok"]
             ELSE [m |-> c.m, status |-> "panic"]
    ELSE [m |-> m, status |-> "ok"]

Release(ino) ==
    /\ Running
    /\ LET r == release(Model, pending_appends, settings, ino)
       IN  Reply(r.m, [op |-> "release", status |-> r.status, ino |-> ino])
    /\ UNCHANGED <<current_ino, pending_appends, subfragments>>
    /\ Count

\* FustaFS::fsync and FustaFS::fsyncdir
fsync(m, cfg) ==
    LET c == concretize(m, FALSE, cfg)
    IN  IF c.ok THEN [m |-> refresh_metadata(c.m, FALSE), status |-> "ok"]
        ELSE [m |-> c.m, status |-> "panic"]

Fsync ==
    /\ Running
    /\ LET r == fsync(Model, settings)
       IN  Reply(r.m, [op |-> "fsync", status |-> r.status])
    /\ UNCHANGED <<current_ino, pending_appends, subfragments>>
    /\ Count

Fsyncdir ==
    /\ Running
    /\ LET r == fsync(Model, settings)
       IN  Reply(r.m, [op |-> "fsyncdir", status |-> r.status])
    /\ UNCHANGED <<current_ino, pending_appends, subfragments>>
    /\ Count

\* FustaFS::flush
Flush ==
    /\ Running
    /\ Reply(Model, [op |-> "flush", status |-> "ok"])
    /\ UNCHANGED <<current_ino, pending_appends, subfragments>>
    /\ Count

\* FustaFS::destroy: the last operation of a mount
Destroy ==
    /\ Running
    /\ LET c == concretize(Model, FALSE, settings)
       IN  /\ Finish(c.m, [op |-> "destroy", status |-> IF c.ok THEN "ok" ELSE "panic"])
           /\ phase' = IF c.ok THEN "destroyed" ELSE "panicked"
    /\ UNCHANGED <<current_ino, pending_appends, subfragments>>
    /\ Count

\* impl Drop for FustaFS
Drop ==
    /\ Running \/ phase = "destroyed"
    /\ LET c == concretize(Model, TRUE, settings)
       IN  /\ Finish(c.m, [op |-> "drop", status |-> IF c.ok THEN "ok" ELSE "panic"])
           /\ phase' = IF c.ok THEN "dropped" ELSE "panicked"
    /\ UNCHANGED <<current_ino, pending_appends, subfragments>>
    /\ Count

\* concretize that writes the fragments over the source itself, without a
\* temporary file
interrupted_in_place(m, k) ==
    LET st == ConcretizeLoop([fragments |-> m.fragments, tmp |-> <<>>, ok |-> TRUE],
                             m.disk, 1, k)
    IN  [m |-> [m EXCEPT !.fragments = st.fragments, !.disk = st.tmp], ok |-> st.ok]

\* concretize stopped after k turns of its loop and before the rename
\* (fs.rs:660-687): the fragments written so far are in the temporary file
\* and rebased on the ranges they will have
interrupted(m, k) ==
    LET st == ConcretizeLoop([fragments |-> m.fragments, tmp |-> <<>>, ok |-> TRUE],
                             m.disk, 1, k)
    IN  [m |-> [m EXCEPT !.fragments = st.fragments, !.tmp = Some(st.tmp)], ok |-> st.ok]

\* The process is killed, or an I/O call fails, inside the concretize of
\* drop after k turns of its loop
Kill(k) ==
    /\ Running \/ phase = "destroyed"
    /\ concretize_runs(Model, TRUE, settings)
    /\ k \in 0..Len(fragments)
    /\ LET c == interrupted(Model, k)
       IN  /\ c.ok
           /\ Finish(c.m, [op |-> "drop", status |-> "killed", turns |-> k])
    /\ phase' = "killed"
    /\ UNCHANGED <<current_ino, pending_appends, subfragments>>
    /\ Count

-----------------------------------------------------------------------------
(* The inputs of the operations *)

\* every inode handed out so far, and the next one, which names nothing
Inos == FIRST_INO..current_ino

LookupNames == {FileName(a_id, SEQ_EXT), FileName(b_id, FASTA_EXT), FileName(c_id, SEQ_EXT)}
GetNames ==
    {GetName(a_id, None), GetName(a_id, Some(<<1, 2>>)), GetName(a_id, Some(<<0, 2>>)),
     GetName(b_id, Some(<<2, 3>>)), GetName(c_id, Some(<<1, 2>>))}
RootNames == {"fasta", "labels.txt", "nothing"}
ReadOffsets == {0, 3, 4}
ReadSizes == {2, 9}
WriteOffsets == {0, 5}
WriteData == {<<"G">>, <<"T", NL>>, <<"G", SP>>, <<GT, "c", NL>>}
SetattrSizes == {None, Some(0), Some(1), Some(4)}
MknodNames == {a_id, c_id}
UnlinkNames == {FileName(a_id, SEQ_EXT), FileName(b_id, FASTA_EXT), FileName(c_id, SEQ_EXT)}
RenameNames == {FileName(a_id, SEQ_EXT), FileName(b_id, FASTA_EXT)}
RenameNewNames == {FileName(b_id, ""), FileName(c_id, SEQ_EXT), FileName(a_id, "")}

Next ==
    \/ \E parent \in {SEQ_DIR, FASTA_DIR}, name \in LookupNames : Lookup(parent, name)
    \/ \E name \in GetNames : LookupGet(name)
    \/ \E parent \in {ROOT_DIR, APPEND_DIR}, name \in RootNames : LookupRoot(parent, name)
    \/ \E ino \in {ROOT_DIR, LABELS_FILE} \cup Inos : Getattr(ino)
    \/ \E ino \in {LABELS_FILE} \cup Inos, offset \in ReadOffsets, size \in ReadSizes :
          Read(ino, offset, size)
    \/ \E ino \in {ROOT_DIR, SEQ_DIR, FASTA_DIR, APPEND_DIR, LABELS_FILE} : Readdir(ino)
    \/ \E ino \in {SEQ_DIR, LABELS_FILE} \cup Inos, offset \in WriteOffsets, bytes \in WriteData :
          Write(ino, offset, bytes)
    \/ \E ino \in {SEQ_DIR, LABELS_FILE} \cup Inos, size \in SetattrSizes : Setattr(ino, size)
    \/ \E parent \in {APPEND_DIR, SEQ_DIR}, name \in MknodNames : Mknod(parent, name)
    \/ \E parent \in {ROOT_DIR, SEQ_DIR, FASTA_DIR, APPEND_DIR}, name \in UnlinkNames :
          Unlink(parent, name)
    \/ \E parent \in {ROOT_DIR, SEQ_DIR, FASTA_DIR}, name \in RenameNames,
          newparent \in {SEQ_DIR, FASTA_DIR}, newname \in RenameNewNames :
          Rename(parent, name, newparent, newname)
    \/ \E ino \in {LABELS_FILE} \cup Inos : Release(ino)
    \/ Fsync
    \/ Fsyncdir
    \/ Flush
    \/ Destroy
    \/ Drop
    \/ \E k \in 0..Len(fragments) : Kill(k)

Spec == Init /\ [][Next]_vars

\* Reads of the files of the fragments between writes and resizes, under the
\* default cache policy
MaxReadOps == 3

InitRead ==
    /\ Mount(MaxReadOps)
    /\ settings.cache = "Mmap" /\ ~settings.no_overwrite

NextRead ==
    \/ \E ino \in Inos, offset \in ReadOffsets, size \in ReadSizes : Read(ino, offset, size)
    \/ \E ino \in Inos, offset \in WriteOffsets, bytes \in WriteData : Write(ino, offset, bytes)
    \/ \E ino \in Inos, size \in SetattrSizes : Setattr(ino, size)

SpecRead == InitRead /\ [][NextRead]_vars

\* The reader alone, on every source of at most MaxSrc bytes of a header
\* mark, a letter and a newline: with and without a last newline, with empty
\* bodies, with bytes before the first header
MaxSrc == 5
ReaderBytes == {GT, "A", NL}
ReaderSources == UNION {[1..n -> ReaderBytes] : n \in 0..MaxSrc}

InitParse ==
    /\ disk \in ReaderSources
    /\ settings \in {cfg \in Settings : cfg.concretize_threshold = 0 /\ ~cfg.no_overwrite}
    /\ fragments = <<>>
    /\ name2fragment = <<>>
    /\ ino2fragment = <<>>
    /\ files = [info |-> [count |-> 0, rows |-> <<>>], labels |-> <<>>, labels_size |-> 0]
    /\ current_ino = FIRST_INO
    /\ pending_appends = <<>>
    /\ subfragments = [values |-> <<>>, keys |-> <<>>]
    /\ dirty = FALSE
    /\ tmp = None
    /\ phase = "reading"
    /\ reply = NoReply
    /\ nops = 1

\* FastaReader::new(file, cache == RAM) collected, as read_fasta calls it on
\* the source
ParseSource ==
    /\ phase = "reading" /\ nops > 0
    /\ reply' = [op |-> "parse", status |-> "ok", keep_labels |-> settings.cache = "RAM",
                 out |-> FastaReader(disk, settings.cache = "RAM")]
    /\ nops' = 0
    /\ UNCHANGED <<fragments, name2fragment, ino2fragment, files, current_ino,
                   pending_appends, subfragments, dirty, settings, disk, tmp, phase>>

\* FastaReader::new(&tmpfile, true) collected, as release calls it on the
\* bytes of a pending append
ParseAppend ==
    /\ phase = "reading" /\ nops > 0
    /\ reply' = [op |-> "parse", status |-> "ok", keep_labels |-> TRUE,
                 out |-> FastaReader(disk, TRUE)]
    /\ nops' = 0
    /\ UNCHANGED <<fragments, name2fragment, ino2fragment, files, current_ino,
                   pending_appends, subfragments, dirty, settings, disk, tmp, phase>>

NextParse == ParseSource \/ ParseAppend

SpecParse == InitParse /\ [][NextParse]_vars

\* Runs in which no mutating operation succeeds: lookups, getattr, read and
\* readdir, the operations that are refused with an error, and the four
\* operations that concretize
MaxObsOps == 3

InitObserve == Mount(MaxObsOps)

Refused == reply'.status \in {"ENOENT", "EACCES", "EIO", "EEXIST"}

NextObserve ==
    \/ \E parent \in {SEQ_DIR, FASTA_DIR}, name \in LookupNames : Lookup(parent, name)
    \/ \E name \in GetNames : LookupGet(name)
    \/ \E parent \in {ROOT_DIR, APPEND_DIR}, name \in RootNames : LookupRoot(parent, name)
    \/ \E ino \in {ROOT_DIR, LABELS_FILE} \cup Inos : Getattr(ino)
    \/ \E ino \in {LABELS_FILE} \cup Inos, offset \in ReadOffsets, size \in ReadSizes :
          Read(ino, offset, size)
    \/ \E ino \in {ROOT_DIR, SEQ_DIR, FASTA_DIR, APPEND_DIR, LABELS_FILE} : Readdir(ino)
    \/ \E ino \in {SEQ_DIR, LABELS_FILE} \cup Inos, offset \in WriteOffsets, bytes \in WriteData :
          Write(ino, offset, bytes) /\ Refused
    \/ \E ino \in {SEQ_DIR, LABELS_FILE} \cup Inos, size \in SetattrSizes :
          Setattr(ino, size) /\ Refused
    \/ \E parent \in {APPEND_DIR, SEQ_DIR}, name \in MknodNames :
          Mknod(parent, name) /\ Refused
    \/ \E parent \in {ROOT_DIR, SEQ_DIR, FASTA_DIR, APPEND_DIR}, name \in UnlinkNames :
          Unlink(parent, name) /\ Refused
    \/ \E parent \in {ROOT_DIR, SEQ_DIR, FASTA_DIR}, name \in RenameNames,
          newparent \in {SEQ_DIR, FASTA_DIR}, newname \in RenameNewNames :
          Rename(parent, name, newparent, newname) /\ Refused
    \/ Fsync
    \/ Fsyncdir
    \/ Destroy
    \/ Drop

SpecObserve == InitObserve /\ [][NextObserve]_vars

\* Runs of writes, lookups and renames in seqs/ of a file to the name it has
MaxSameOps == 2

InitSame == Mount(MaxSameOps)

SameIds == {a_id, b_id, c_id}

RenameSame(id) == Rename(SEQ_DIR, FileName(id, SEQ_EXT), SEQ_DIR, FileName(id, SEQ_EXT))

NextSame ==
    \/ \E id \in SameIds : RenameSame(id)
    \/ \E parent \in {SEQ_DIR, FASTA_DIR}, name \in LookupNames : Lookup(parent, name)
    \/ \E ino \in {SEQ_DIR, LABELS_FILE} \cup Inos, offset \in WriteOffsets, bytes \in WriteData :
          Write(ino, offset, bytes)

SpecSame == InitSame /\ [][NextSame]_vars

-----------------------------------------------------------------------------
(* Properties *)

\* C1: after every completed operation, the size of every fragment's .fa
\* file is label_size + data_size and the size of its .seq file is data_size
C1_VirtualFileSizes ==
    \A i \in Positions(fragments) :
        /\ fragments[i].fasta_file.size = label_size(fragments[i]) + data_size(fragments[i])
        /\ fragments[i].seq_file.size = data_size(fragments[i])

\* a setattr has resized the three-byte body of `a` to four bytes
C1_Witness ==
    /\ reply.op = "setattr" /\ reply.status = "ok"
    /\ \E i \in Positions(fragments) :
          /\ fragments[i].id = a_id
          /\ fragments[i].data.kind = "Buffer"
          /\ fragments[i].seq_file.size = 4
          /\ fragments[i].fasta_file.size = 7

\* the inodes of the files of the fragments
FragmentInos(f) == {f.fasta_file.ino, f.seq_file.ino}

\* C2: the two inodes of a fragment differ, the inodes of two fragments are
\* disjoint, and none is the inode of a directory or of a built-in file
C2_DistinctInodes ==
    \A i \in Positions(fragments) :
        /\ fragments[i].fasta_file.ino # fragments[i].seq_file.ino
        /\ FragmentInos(fragments[i]) \cap (Dirs \cup BuiltinFiles) = {}
        /\ \A j \in Positions(fragments) :
              i # j => FragmentInos(fragments[i]) \cap FragmentInos(fragments[j]) = {}

\* a pending append has been created and released next to the two
\* fragments of the load
C2_Witness ==
    /\ reply.op = "release" /\ reply.status = "ok"
    /\ is_append_file(pending_appends, reply.ino)
    /\ dirty
    /\ Len(fragments) = 2

\* the canonical serialization of the fragments frs, their bodies read
\* against the file dsk: label, body, and the '\n' concretize adds
RECURSIVE Serialization(_, _)
Serialization(frs, dsk) ==
    IF frs = <<>> THEN <<>>
    ELSE Record(Head(frs), data(Head(frs), dsk).v) \o Serialization(Tail(frs), dsk)

\* C3: when the filesystem object is dropped after destroy while edited
\* bodies (Buffer backings, the work of write and setattr) are in memory, the
\* source file becomes the canonical serialization of the fragments held in
\* memory at that moment
C3_UnmountPersists ==
    [][(/\ phase = "destroyed" /\ phase' = "dropped"
        /\ \E i \in Positions(fragments) : fragments[i].data.kind = "Buffer")
          => disk' = Serialization(fragments, disk)]_vars

\* a step of fsync, fsyncdir, destroy or drop in which concretize went past
\* its early returns and came back
ConcretizeStep ==
    /\ reply'.op \in {"fsync", "fsyncdir", "destroy", "drop"}
    /\ reply'.status = "ok"
    /\ concretize_runs(Model, reply'.op = "drop", settings)

\* the bytes of the file dsk a File backing addresses
Addressed(f, dsk) == Slice(dsk, f.data.start, f.data.end)

\* C4 (amended): when a concretize runs to completion the model is not
\* dirty, every backing is a File range, the source is the labels and bodies
\* in list order with a '\n' after each body that is not empty and does not
\* end with one, and each range addresses the body of its fragment followed
\* by that '\n'
C4_ConcretizePost ==
    [][ConcretizeStep =>
          /\ ~dirty'
          /\ disk' = Serialization(fragments, disk)
          /\ Len(fragments') = Len(fragments)
          /\ \A i \in Positions(fragments) :
                /\ fragments'[i].data.kind = "File"
                /\ fragments'[i].data.end <= Len(disk')
                /\ label(fragments[i]) \o Addressed(fragments'[i], disk')
                      = Record(fragments[i], data(fragments[i], disk).v)]_vars

\* under the RAM policy an fsync has rewritten the source after a write at
\* offset 5 that left the body of `a` without a final '\n'
C4_Witness ==
    /\ reply.op = "fsync" /\ reply.status = "ok"
    /\ ~dirty
    /\ disk # Src1
    /\ \A i \in Positions(fragments) : fragments[i].data.kind = "File"
    /\ \E i \in Positions(fragments) :
          /\ fragments[i].id = a_id
          /\ Addressed(fragments[i], disk) = <<"A", "C", NUL, NUL, NUL, "G", NL>>

\* label, body, and a '\n' after a body that does not end with one
RecordAsStated(f, body) ==
    label(f) \o body \o (IF body = <<>> \/ body[Len(body)] # NL THEN <<NL>> ELSE <<>>)

\* C4 as stated: a '\n' follows every body that does not end with one, and
\* each range addresses exactly the body of its fragment
C4_AsStated ==
    [][ConcretizeStep =>
          /\ ~dirty'
          /\ disk' = Flatten([i \in Positions(fragments) |->
                          RecordAsStated(fragments[i], data(fragments[i], disk).v)])
          /\ \A i \in Positions(fragments) :
                /\ fragments'[i].data.kind = "File"
                /\ Addressed(fragments'[i], disk') = data(fragments[i], disk).v]_vars

\* C5: a concretize that is interrupted before the rename, or a handler that
\* panics, leaves the bytes of the source as they were; a step that changes
\* the source is a completed concretize, after which no temporary file is
\* left and every backing is a File range inside the new file
C5_RenameCommits ==
    [][/\ phase' \in {"killed", "panicked"} => disk' = disk
       /\ disk' # disk =>
             /\ tmp' = None
             /\ ~dirty'
             /\ \A i \in Positions(fragments') :
                   /\ fragments'[i].data.kind = "File"
                   /\ fragments'[i].data.start <= fragments'[i].data.end
                   /\ fragments'[i].data.end <= Len(disk')]_vars

\* the process was killed after the first of two fragments was written to
\* the temporary file: the source is the file of the mount
C5_Witness ==
    /\ phase = "killed"
    /\ reply.turns = 1
    /\ dirty
    /\ tmp.some /\ tmp.v # <<>>
    /\ disk = Src1
    /\ Len(fragments) = 2

\* the inode is a fragment's .seq file or a pending append
Writable(ino) == is_seq_file(Model, ino) \/ is_append_file(pending_appends, ino)

\* all that a refused write must leave as it was
WriteLeaves ==
    UNCHANGED <<fragments, name2fragment, ino2fragment, files, current_ino,
                pending_appends, subfragments, dirty, disk, tmp>>

\* C6: a write to a .seq file or to a pending append whose data holds a byte
\* outside the FASTA alphabet (here ' ', '>' or NUL) is refused, and the
\* fragments, the pending appends, the sizes and the dirty flag stay as they
\* were
C6_InvalidWriteRefused ==
    [][(/\ reply'.op = "write"
        /\ Writable(reply'.ino)
        /\ \E k \in 1..Len(reply'.data) : reply'.data[k] \in {SP, GT, NUL})
          => reply'.status = "EIO" /\ reply'.written = 0 /\ WriteLeaves]_vars

\* a write of ">c\n" to a pending append has been refused
C6_Witness ==
    /\ reply.op = "write" /\ reply.status = "EIO"
    /\ reply.data = <<GT, "c", NL>>
    /\ is_append_file(pending_appends, reply.ino)
    /\ pending_appends[PendingKey(pending_appends, reply.ino)].data = <<>>

\* the body a write leaves: the old one, zero-filled up to offset + Len(bytes),
\* with the bytes at offset
Written(old, offset, bytes) ==
    [k \in 1..Max(Len(old), offset + Len(bytes)) |->
        IF offset < k /\ k <= offset + Len(bytes) THEN bytes[k - offset]
        ELSE IF k <= Len(old) THEN old[k] ELSE NUL]

\* C7: a successful write to a .seq file leaves its fragment with a Buffer
\* backing holding the previous body, zero-filled up to offset + len, with
\* the bytes in place; the other fragments are untouched, the reply gives
\* the number of bytes and the model is dirty
C7_WriteSplices ==
    [][(reply'.op = "write" /\ reply'.status = "ok" /\ is_seq_file(Model, reply'.ino))
          => LET i == fragment_from_ino(Model, reply'.ino).v
             IN  /\ fragments'[i].data =
                       BackingBuffer(Written(data(fragments[i], disk).v,
                                             reply'.offset, reply'.data))
                 /\ \A j \in Positions(fragments) \ {i} : fragments'[j] = fragments[j]
                 /\ Len(fragments') = Len(fragments)
                 /\ reply'.written = Len(reply'.data)
                 /\ dirty']_vars

\* a write of "G" at offset 5 has zero-filled the mapped body "AC\n" of `a`
C7_Witness ==
    /\ reply.op = "write" /\ reply.status = "ok" /\ reply.offset = 5
    /\ settings.cache = "Mmap"
    /\ dirty
    /\ \E i \in Positions(fragments) :
          /\ fragments[i].seq_file.ino = reply.ino
          /\ fragments[i].data = BackingBuffer(<<"A", "C", NL, NUL, NUL, "G">>)

\* C8: a read of a fragment's .fa file at an offset inside the file returns
\* the bytes [offset, min(offset + size, label_size + data_size)) of the
\* label followed by the body the fragment has at that moment
C8_ReadFastaCurrent ==
    [][(reply'.op = "read" /\ is_fasta_file(Model, reply'.ino))
          => LET f == fragments[fragment_from_ino(Model, reply'.ino).v]
                 all == label(f) \o data(f, disk).v
             IN  reply'.offset <= Len(all)
                   => /\ reply'.status = "ok"
                      /\ reply'.data = Slice(all, reply'.offset,
                                             Min(reply'.offset + reply'.size, Len(all)))]_vars

\* C9: a read of the whole of a subfragment whose parent exists returns the
\* bytes of the parent's body without its '\n', from the start of the
\* subfragment, as many as its length or as there are
C9_SubfragmentRead ==
    [][(/\ reply'.op = "read" /\ reply'.offset = 0
        /\ subfragment_from_ino(subfragments, reply'.ino).some
        /\ reply'.ino \notin DOMAIN ino2fragment
        /\ reply'.size = subfragment_from_ino(subfragments, reply'.ino).v.size)
          => LET sf == subfragment_from_ino(subfragments, reply'.ino).v
             IN  \A i \in Positions(fragments) :
                    fragments[i].id = sf.fragment =>
                       LET pure == Filter(data(fragments[i], disk).v, NL)
                       IN  /\ reply'.status = "ok"
                           /\ reply'.data = Slice(pure, Min(sf.start, Len(pure)),
                                                  Min(sf.start + sf.size, Len(pure)))]_vars

\* C10: a write is accepted only on a .seq file or a pending append; on any
\* other inode it is refused with EACCES and changes nothing
C10_WriteOnlyWriteable ==
    [][reply'.op = "write"
          => /\ reply'.status = "ok" => Writable(reply'.ino)
             /\ ~Writable(reply'.ino) => reply'.status = "EACCES" /\ WriteLeaves]_vars

\* a write to the inode of a subfragment has been refused
C10_Witness ==
    /\ reply.op = "write" /\ reply.status = "EACCES"
    /\ subfragment_from_ino(subfragments, reply.ino).some
    /\ ~dirty

\* the positions of the fragments whose file in the directory parent (the
\* .fa file in fasta/, the .seq file in seqs/) has the name
Designated(frs, parent, name) ==
    {i \in Positions(frs) :
        \/ parent = FASTA_DIR /\ frs[i].fasta_file.name = name
        \/ parent = SEQ_DIR /\ frs[i].seq_file.name = name}

\* what identifies the fragments of a list, in order: id, comment, inodes
Identities(frs) ==
    [i \in Positions(frs) |->
        <<frs[i].id, frs[i].name, frs[i].fasta_file.ino, frs[i].seq_file.ino>>]

\* C11: an unlink in fasta/ or seqs/ of the .fa or .seq file name of a current
\* fragment removes exactly that fragment, keeps the others in their order
\* and leaves the model dirty or the removal already written to the source;
\* an unlink of a name no fragment has replies ENOENT and leaves the
\* fragments and the dirty flag as they were
C11_UnlinkRemoves ==
    [][(reply'.op = "unlink" /\ reply'.parent \in {SEQ_DIR, FASTA_DIR})
          => LET gone == Designated(fragments, reply'.parent, reply'.name)
             IN  IF gone # {}
                 THEN /\ reply'.status = "ok"
                      /\ Identities(fragments') =
                            Identities(Retain(fragments, Positions(fragments) \ gone))
                      /\ dirty' \/ disk' = Serialization(fragments', disk')
                 ELSE /\ reply'.status = "ENOENT"
                      /\ fragments' = fragments
                      /\ dirty' = dirty]_vars

\* a rename step inside fasta/ or seqs/
RenameStep ==
    /\ reply'.op = "rename"
    /\ reply'.parent \in {SEQ_DIR, FASTA_DIR}
    /\ reply'.newparent = reply'.parent

\* the positions of the fragments with the id
WithId(frs, id) == {i \in Positions(frs) : frs[i].id = id}

\* id, file names and inodes of the fragments of a list, in order
Files(frs) ==
    [i \in Positions(frs) |->
        <<frs[i].id, frs[i].fasta_file.name, frs[i].seq_file.name,
          frs[i].fasta_file.ino, frs[i].seq_file.ino>>]

\* the bodies of the fragments without their '\n', read against the file dsk
Bodies(frs, dsk) == [i \in Positions(frs) |-> Filter(data(frs[i], dsk).v, NL)]

\* the list frs without the fragments at the positions gone and with the
\* fragment at position t under the id new_id
Renamed(frs, t, gone, new_id) ==
    Retain([frs EXCEPT ![t] = FragmentRename(frs[t], new_id)], Positions(frs) \ gone)

\* C12: with overwrite allowed, a rename in fasta/ or seqs/ of the file of a
\* fragment T to a new id that another fragment E has removes E, gives T
\* (its body, its inodes) the new id and the file names made of it, and
\* leaves every other fragment as it was, wherever T and E stand in the list
C12_RenameEvicts ==
    [][(RenameStep /\ ~settings.no_overwrite)
          => LET T == Designated(fragments, reply'.parent, reply'.name)
                 E == WithId(fragments, NewId(reply'.newname))
             IN  (T # {} /\ E # {} /\ T \cap E = {})
                    => \A t \in T :
                          LET want == Renamed(fragments, t, E, NewId(reply'.newname))
                          IN  /\ reply'.status = "ok"
                              /\ Files(fragments') = Files(want)
                              /\ Bodies(fragments', disk') = Bodies(want, disk)]_vars

\* all of the model a refused operation must leave as it was
ModelLeft ==
    UNCHANGED <<fragments, name2fragment, ino2fragment, files, current_ino,
                pending_appends, subfragments, dirty, disk, tmp>>

\* C13: a rename is refused and leaves the model as it was when its parent is
\* the root, append/ or get/, when the new parent is not the parent, or when
\* the new id is the id of a fragment of the model and no_overwrite is set
C13_RenameRefused ==
    [][reply'.op = "rename"
          => ((\/ reply'.parent \in {ROOT_DIR, APPEND_DIR, SUBFRAGMENTS_DIR}
               \/ reply'.newparent # reply'.parent
               \/ /\ settings.no_overwrite
                  /\ WithId(fragments, NewId(reply'.newname)) # {})
                 => reply'.status = "EACCES" /\ ModelLeft)]_vars

\* the new id as the specification derives it from newname: the name
\* without a trailing ".seq"
StatedId(newname) ==
    IF newname.ext = SEQ_EXT THEN newname.stem ELSE newname.stem \o ExtBytes(newname)

\* C14: when a rename in seqs/ or fasta/ has replied ok, the source file is
\* the serialization of the fragments of the model, among them the renamed
\* fragment under its new id, whatever the cache policy and the threshold
C14_RenameRewrites ==
    [][(RenameStep /\ reply'.status = "ok")
          => /\ disk' = Serialization(fragments', disk')
             /\ \E i \in Positions(fragments') :
                   fragments'[i].id = StatedId(reply'.newname)]_vars

\* the ids of the fragments of a list
Ids(frs) == {frs[i].id : i \in Positions(frs)}

\* C15: the bytes of FASTA records written to a pending append accumulate in
\* its buffer, and the release of its inode integrates one fragment per
\* sequence parsed from the buffer: with no_overwrite a parsed id that exists
\* is skipped and the existing fragment kept, otherwise the existing fragment
\* is replaced; every other fragment is kept; each integrated fragment is
\* found by lookup under its id and holds the parsed body
C15_AppendIntegrates ==
    [][/\ (/\ reply'.op = "write"
           /\ is_append_file(pending_appends, reply'.ino)
           /\ reply'.data # <<>> /\ reply'.data[1] = GT)
             => LET k == PendingKey(pending_appends, reply'.ino)
                IN  /\ reply'.status = "ok"
                    /\ pending_appends'[k].data =
                          Written(pending_appends[k].data, reply'.offset, reply'.data)
       /\ (reply'.op = "release" /\ is_append_file(pending_appends, reply'.ino))
             => LET p == pending_appends[PendingKey(pending_appends, reply'.ino)]
                    parsed == FastaReader(p.data, TRUE)
                    new_ids == {parsed[k].id : k \in 1..Len(parsed)}
                IN  /\ reply'.status = "ok"
                    /\ \A i \in Positions(fragments) :
                          (settings.no_overwrite \/ fragments[i].id \notin new_ids)
                             => \E j \in Positions(fragments') :
                                   Identities(fragments')[j] = Identities(fragments)[i]
                    /\ \A k \in 1..Len(parsed) :
                          ~(settings.no_overwrite /\ parsed[k].id \in Ids(fragments))
                             => \E j \in Positions(fragments') :
                                   /\ fragments'[j].id = parsed[k].id
                                   /\ FragmentInos(fragments'[j]) = {p.seq_ino, p.fasta_ino}
                                   /\ Filter(data(fragments'[j], disk').v, NL) = parsed[k].seq
                                   /\ Get(name2fragment', parsed[k].id) = Some(j)]_vars

\* every inode that names something: directories, built-in files, the files
\* of the fragments, the pending appends with their reserved inodes, the
\* subfragments
UsedInos ==
    Dirs \cup BuiltinFiles
      \cup UNION {FragmentInos(fragments[i]) : i \in Positions(fragments)}
      \cup UNION {{pending_appends[k].ino, pending_appends[k].seq_ino,
                   pending_appends[k].fasta_ino} : k \in DOMAIN pending_appends}
      \cup DOMAIN subfragments.keys

\* C16: a mknod under a parent other than append/ is refused and allocates
\* nothing; under append/ with no_overwrite and the id of a fragment as
\* basename it replies EEXIST and creates no pending append; otherwise it
\* creates a pending append with an empty buffer, a fresh inode of its own
\* and two more fresh inodes in reserve, the three distinct
C16_MknodCreates ==
    [][reply'.op = "mknod"
          => IF reply'.parent # APPEND_DIR
             THEN reply'.status \in {"EACCES", "ENOENT"} /\ ModelLeft
             ELSE IF reply'.name \in Ids(fragments) /\ settings.no_overwrite
             THEN reply'.status = "EEXIST" /\ ModelLeft
             ELSE /\ reply'.status = "ok"
                  /\ DOMAIN pending_appends' = DOMAIN pending_appends \cup {reply'.name}
                  /\ \A k \in DOMAIN pending_appends \ {reply'.name} :
                        pending_appends'[k] = pending_appends[k]
                  /\ LET p == pending_appends'[reply'.name]
                     IN  /\ p.data = <<>>
                         /\ reply'.attrs = Attrs(p.ino, 0)
                         /\ Cardinality({p.ino, p.seq_ino, p.fasta_ino}) = 3
                         /\ {p.ino, p.seq_ino, p.fasta_ino} \cap UsedInos = {}
                  /\ UNCHANGED <<fragments, dirty, disk>>]_vars

\* with no_overwrite set, a pending append `c` has been created next to the
\* fragments a and b
C16_Witness ==
    /\ reply.op = "mknod" /\ reply.status = "ok" /\ reply.parent = APPEND_DIR
    /\ settings.no_overwrite
    /\ c_id \in DOMAIN pending_appends
    /\ pending_appends[c_id].data = <<>>
    /\ pending_appends[c_id].ino = reply.attrs.v.ino

\* the key under which the specification memoizes the subfragment a name of
\* get/ designates: the id and the 0-based window, or the id alone
CanonicalKey(name) ==
    [id |-> name.stem,
     range |-> IF name.coords.some
               THEN Some(clear_coordinates(name.coords.v[1] - 1, name.coords.v[2]))
               ELSE None]

\* C17: a lookup in get/ of a name whose window of an existing fragment was
\* looked up before (the same name, a name with the same canonical key, or
\* the same bare id) returns the inode of the subfragment made by the first
\* lookup and makes no subfragment
C17_LookupMemoized ==
    [][(/\ reply'.op = "lookup" /\ reply'.parent = SUBFRAGMENTS_DIR
        /\ reply'.name.stem \in Ids(fragments)
        /\ CanonicalKey(reply'.name) \in DOMAIN subfragments.values)
          => /\ reply'.status = "ok"
             /\ reply'.attrs.v.ino = subfragments.values[CanonicalKey(reply'.name)].ino
             /\ subfragments' = subfragments]_vars

\* the files an inode names in a model: the .fa or the .seq file of a
\* fragment, a pending append, the subfragment of a key
FilesAt(frs, pas, sfs, ino) ==
    {<<"fa">> : i \in {j \in Positions(frs) : frs[j].fasta_file.ino = ino}}
      \cup {<<"seq">> : i \in {j \in Positions(frs) : frs[j].seq_file.ino = ino}}
      \cup {<<"append", k>> : k \in {l \in DOMAIN pas : pas[l].ino = ino}}
      \cup {<<"get", sfs.keys[i]>> : i \in {j \in DOMAIN sfs.keys : j = ino}}

\* the inodes a pending append holds in reserve for the files of its fragment
Reserved(pas) == UNION {{pas[k].seq_ino, pas[k].fasta_ino} : k \in DOMAIN pas}

\* the inodes that name a file in a model
FileInos(frs, pas, sfs) ==
    UNION {FragmentInos(frs[i]) : i \in Positions(frs)}
      \cup {pas[k].ino : k \in DOMAIN pas}
      \cup DOMAIN sfs.keys

\* C18: the inode counter never decreases, every inode of a file is at least
\* FIRST_INO and below the counter, no inode names two files, an inode that
\* names a file names the same file or nothing after any operation, even
\* one that unlinks or replaces its fragment, and an inode that starts to
\* name a file was never allocated before or was held in reserve for it
C18_InodesNeverReused ==
    [][/\ current_ino' >= current_ino
       /\ FileInos(fragments', pending_appends', subfragments')
             \subseteq FIRST_INO..(current_ino' - 1)
       /\ \A ino \in FileInos(fragments, pending_appends, subfragments)
                        \cup FileInos(fragments', pending_appends', subfragments') :
             LET old == FilesAt(fragments, pending_appends, subfragments, ino)
                 new == FilesAt(fragments', pending_appends', subfragments', ino)
             IN  /\ Cardinality(new) <= 1
                 /\ old # {} => new \subseteq old
                 /\ (old = {} /\ new # {})
                       => ino >= current_ino \/ ino \in Reserved(pending_appends)]_vars

\* after the unlink of a fragment, whose inodes 20 and 21 name nothing any
\* more, a mknod has taken the inodes 24, 25 and 26
C18_Witness ==
    /\ reply.op = "mknod" /\ reply.status = "ok"
    /\ Len(fragments) = 1
    /\ FilesAt(fragments, pending_appends, subfragments, 20) = {}
    /\ FilesAt(fragments, pending_appends, subfragments, 21) = {}
    /\ reply.attrs.v.ino = 24
    /\ current_ino = 27

\* the error codes of the replies
Errors == {"ENOENT", "EACCES", "EIO", "EEXIST"}

\* C19: when a lookup, getattr, read, write, setattr, mknod, unlink or rename
\* replies with an error, the fragments (ids, order, bodies, backings,
\* inodes), the pending appends and the dirty flag are as before the call
C19_ErrorsLeaveModel ==
    [][(/\ reply'.op \in {"lookup", "getattr", "read", "write", "setattr", "mknod",
                          "unlink", "rename"}
        /\ reply'.status \in Errors)
          => UNCHANGED <<fragments, pending_appends, dirty>>]_vars

\* C20: in every state of a run, from the load on (which refuses a source
\* with two sequences of the same id) and after every rename and every
\* release of a pending append, no two fragments of the model have the same id
C20_DistinctIds ==
    \A i, j \in Positions(fragments) : fragments[i].id = fragments[j].id => i = j

\* the handlers that end with a concretize
Concretizers == {"fsync", "fsyncdir", "destroy", "drop", "unlink", "rename", "release"}

\* C21: a concretize that runs leaves a model on which a second concretize,
\* forced or not, returns at its first test and changes nothing; and a
\* handler that concretizes right after one that left the model clean
\* leaves the source, the temporary file, the fragments (backings and sizes)
\* and the dirty flag as they were
C21_ConcretizeIdempotent ==
    [][/\ \A f1, f2 \in BOOLEAN :
             (concretize_runs(Model, f1, settings) /\ concretize(Model, f1, settings).ok)
                => /\ ~concretize_runs(concretize(Model, f1, settings).m, f2, settings)
                   /\ concretize(concretize(Model, f1, settings).m, f2, settings).m
                         = concretize(Model, f1, settings).m
       /\ (/\ reply.op \in Concretizers /\ reply.status = "ok" /\ ~dirty
           /\ reply'.op \in {"fsync", "fsyncdir", "destroy", "drop"})
             => UNCHANGED <<fragments, disk, tmp, dirty>>]_vars

\* under the memory cache a rename has rewritten the source and the fsync
\* that followed it found nothing to do
C21_Witness ==
    /\ reply.op = "fsync" /\ reply.status = "ok"
    /\ settings.cache = "RAM"
    /\ ~dirty
    /\ disk # Src1
    /\ \E i \in Positions(fragments) : fragments[i].id \notin {a_id, b_id}
    /\ \A i \in Positions(fragments) : fragments[i].data.kind = "File"

\* the inodes that designate something: the directories, the built-in files,
\* the subfragments, the two files of each fragment and the pending appends
Live(frs, pas, sfs) == Dirs \cup BuiltinFiles \cup FileInos(frs, pas, sfs)

\* C22: getattr replies with the attributes of the inode it was asked about
\* for every directory, built-in file, subfragment, fragment file and
\* pending append, and with ENOENT exactly for the other inodes
C22_GetattrLive ==
    [][reply'.op = "getattr"
         => /\ reply'.status \in {"ok", "ENOENT"}
            /\ reply'.status = "ok"
                 <=> reply'.ino \in Live(fragments, pending_appends, subfragments)
            /\ reply'.status = "ok"
                 => reply'.attrs.some /\ reply'.attrs.v.ino = reply'.ino]_vars

\* the two indices designate exactly the fragments of the list: every fragment
\* is found at its position under its id and under its two inodes, and the
\* indices hold nothing else
Indexed(frs, n2f, i2f) ==
    /\ DOMAIN n2f = Ids(frs)
    /\ DOMAIN i2f = UNION {FragmentInos(frs[i]) : i \in Positions(frs)}
    /\ \A i \in Positions(frs) :
          /\ n2f[frs[i].id] = i
          /\ i2f[frs[i].fasta_file.ino] = i
          /\ i2f[frs[i].seq_file.ino] = i

\* the first bytes of old, cut or padded with zero bytes to the length size
Resized(old, size) == [k \in 1..size |-> IF k <= Len(old) THEN old[k] ELSE NUL]

\* C23: setattr with a size on the .seq file of a fragment is answered; size 0
\* leaves an empty Buffer; another size different from the body's leaves a
\* Buffer holding the first bytes of the old body cut or padded with zero
\* bytes to that size, and the model dirty; the size of the body leaves the
\* backing and the dirty flag alone.  setattr on a .fa file, a built-in file
\* or a directory is refused and changes nothing
C23_SetattrSize ==
    [][reply'.op = "setattr"
         => /\ \A i \in Positions(fragments) :
                 (reply'.size.some /\ fragments[i].seq_file.ino = reply'.ino)
                    => /\ reply'.status = "ok"
                       /\ Len(fragments') = Len(fragments)
                       /\ reply'.size.v = 0
                            => fragments'[i].data = BackingBuffer(<<>>)
                       /\ (reply'.size.v # 0 /\ reply'.size.v # data_size(fragments[i]))
                            => /\ data(fragments[i], disk).ok
                               /\ fragments'[i].data
                                    = BackingBuffer(Resized(data(fragments[i], disk).v,
                                                            reply'.size.v))
                               /\ dirty'
                       /\ (reply'.size.v # 0 /\ reply'.size.v = data_size(fragments[i]))
                            => /\ fragments'[i].data = fragments[i].data
                               /\ dirty' = dirty
            /\ (\/ reply'.ino \in Dirs \cup BuiltinFiles
                \/ \E i \in Positions(fragments) : fragments[i].fasta_file.ino = reply'.ino)
                 => reply'.status \in Errors /\ ModelLeft]_vars

\* C24: unlink in the root and in append/ is answered EACCES and changes
\* nothing; an unlink changes the model only under fasta/ and seqs/
C24_UnlinkDenied ==
    [][reply'.op = "unlink"
         => /\ reply'.parent \in {ROOT_DIR, APPEND_DIR}
                 => reply'.status = "EACCES" /\ ModelLeft
            /\ reply'.parent \notin {FASTA_DIR, SEQ_DIR} => ModelLeft]_vars

\* C25: release of an inode that is not a pending append is answered ok and
\* leaves the fragments and their backings, the pending appends, the dirty
\* flag and the source as they were
C25_ReleaseOther ==
    [][(reply'.op = "release" /\ ~is_append_file(pending_appends, reply'.ino))
         => /\ reply'.status = "ok"
            /\ UNCHANGED <<fragments, pending_appends, dirty, disk>>]_vars

\* C26: the release of a pending append ends it: afterwards no pending
\* append has that inode and the inode is no longer writable
C26_ReleaseEndsAppend ==
    [][(reply'.op = "release" /\ is_append_file(pending_appends, reply'.ino))
         => /\ ~is_append_file(pending_appends', reply'.ino)
            /\ ~is_writeable(Model', pending_appends', reply'.ino)]_vars

\* the body of a fragment: the bytes of the source between the two offsets
\* of a file backing, the bytes held in memory for the other backings
Body(f, dsk) == IF f.data.kind = "File" THEN Addressed(f, dsk) ELSE f.data.bytes

\* C27: a read of the .seq file of a fragment at an offset within its body
\* is answered with the bytes of the body from the offset to the offset plus
\* the size, or to the end of the body when that comes first, whatever the
\* backing
C27_ReadSeqSlice ==
    [][reply'.op = "read"
         => \A i \in Positions(fragments) :
               (/\ fragments[i].seq_file.ino = reply'.ino
                /\ reply'.offset <= data_size(fragments[i]))
                  => /\ reply'.status = "ok"
                     /\ reply'.data
                          = Slice(Body(fragments[i], disk), reply'.offset,
                                  Min(reply'.offset + reply'.size,
                                      data_size(fragments[i])))]_vars

\* the steps that change the list of fragments or an id and reply: unlink,
\* rename and the release of a pending append
ListChanged ==
    /\ reply'.status = "ok"
    /\ \/ reply'.op \in {"unlink", "rename"}
       \/ reply'.op = "release" /\ is_append_file(pending_appends, reply'.ino)

\* C28: after the load and after every completed unlink, rename and release
\* of a pending append the name index and the inode index designate exactly
\* the fragments of the list, each at its position
C28_IndicesExact ==
    [][ListChanged => Indexed(fragments', name2fragment', ino2fragment')]_vars

\* C29: after every completed unlink, rename and release of a pending append
\* labels.txt is the labels of the fragments one after the other in the order
\* of the list, the table of infos.txt counts the fragments of the list, and
\* the size of labels.txt is the length of its buffer
C29_SummariesCurrent ==
    [][ListChanged
         => /\ files'.labels = Flatten([i \in Positions(fragments') |-> label(fragments'[i])])
            /\ files'.info.count = Len(fragments')
            /\ files'.labels_size = Len(files'.labels)]_vars

RECURSIVE BufferedUpTo(_, _)
\* the number of bytes held by the Buffer backings of the first n fragments
BufferedUpTo(frs, n) ==
    IF n = 0 THEN 0
    ELSE BufferedUpTo(frs, n - 1)
           + (IF frs[n].data.kind = "Buffer" THEN Len(frs[n].data.bytes) ELSE 0)

\* the condition under which concretize is to rewrite the source
MustRewrite(m, force, cfg) ==
    /\ m.dirty
    /\ \/ force
       \/ /\ cfg.cache = "RAM"
          /\ BufferedUpTo(m.fragments, Len(m.fragments)) >= cfg.concretize_threshold

\* the model m after the rewrite of the model m0
Rewritten(m0, m) ==
    /\ m.disk = Serialization(m0.fragments, m0.disk)
    /\ m.tmp = None
    /\ ~m.dirty
    /\ Len(m.fragments) = Len(m0.fragments)
    /\ \A i \in Positions(m.fragments) : m.fragments[i].data.kind = "File"

\* C30: concretize rewrites the source exactly when the model is dirty and
\* either the call is forced or the cache is RAM and the bytes of the Buffer
\* backings reach the threshold; otherwise it returns the model as it
\* received it.  Stated of the function on every model reached, for both
\* values of force, and of the steps of fsync, fsyncdir, destroy and drop
C30_ConcretizeWhen ==
    [][/\ \A force \in BOOLEAN :
             IF MustRewrite(Model, force, settings)
             THEN concretize(Model, force, settings).ok
                     => Rewritten(Model, concretize(Model, force, settings).m)
             ELSE concretize(Model, force, settings) = [m |-> Model, ok |-> TRUE]
       /\ (reply'.op \in {"fsync", "fsyncdir", "destroy", "drop"} /\ reply'.status = "ok")
             => IF MustRewrite(Model, reply'.op = "drop", settings)
                THEN Rewritten(Model, Model')
                ELSE UNCHANGED <<fragments, disk, tmp, dirty>>]_vars

\* under the RAM cache with a threshold of four bytes an fsync has rewritten
\* the source that a write had left dirty with a Buffer of six bytes
C30_Witness ==
    /\ reply.op = "fsync" /\ reply.status = "ok"
    /\ settings.cache = "RAM" /\ settings.concretize_threshold = 4
    /\ ~dirty
    /\ disk # Src1
    /\ disk = Serialization(fragments, disk)
    /\ \A i \in Positions(fragments) : fragments[i].data.kind = "File"
    /\ \E i \in Positions(fragments) : data_size(fragments[i]) = 7

\* C31: destroy concretizes in forced mode: when it returns on a dirty model
\* the source has been rewritten and the model is clean, whatever the cache
\* policy and the bytes held in memory
C31_DestroyForced ==
    [][(reply'.op = "destroy" /\ reply'.status = "ok" /\ dirty)
         => Rewritten(Model, Model')]_vars

\* C32: the backing of a fragment, followed by the inode of its .seq file,
\* changes only in these ways: a successful write or setattr to another size
\* on its .seq file leaves it a Buffer; a concretize that runs leaves every
\* backing a FileSlice; no backing becomes MMap or PureBuffer; a Buffer stays
\* a Buffer unless the operation concretizes; read, lookup, getattr and
\* readdir leave every backing as it was
C32_BackingTransitions ==
    [][/\ \A i \in Positions(fragments) : \A j \in Positions(fragments') :
             fragments[i].seq_file.ino = fragments'[j].seq_file.ino
                => /\ (/\ reply'.op \in {"write", "setattr"} /\ reply'.status = "ok"
                       /\ reply'.ino = fragments[i].seq_file.ino
                       /\ reply'.op = "setattr"
                            => /\ reply'.size.some
                               /\ reply'.size.v # data_size(fragments[i]))
                         => fragments'[j].data.kind = "Buffer"
                   /\ fragments'[j].data.kind # fragments[i].data.kind
                         => fragments'[j].data.kind \in {"Buffer", "File"}
                   /\ (fragments[i].data.kind = "Buffer"
                         /\ fragments'[j].data.kind # "Buffer")
                         => /\ reply'.op \in Concretizers
                            /\ fragments'[j].data.kind = "File"
                            /\ reply'.status = "ok" => ~dirty'
                   /\ reply'.op \in {"read", "lookup", "getattr", "readdir"}
                         => fragments'[j].data = fragments[i].data
       /\ (/\ reply'.op \in {"fsync", "fsyncdir", "destroy", "drop"}
           /\ reply'.status = "ok"
           /\ MustRewrite(Model, reply'.op = "drop", settings))
             => \A j \in Positions(fragments') : fragments'[j].data.kind = "File"]_vars

\* under the Mmap cache a write has made the mapped body of a fragment a
\* Buffer and the drop has left every backing a FileSlice of the new source
C32_Witness ==
    /\ reply.op = "drop" /\ reply.status = "ok"
    /\ settings.cache = "Mmap"
    /\ ~dirty
    /\ \E k \in DOMAIN disk : disk[k] = "G"
    /\ Len(fragments) = 2
    /\ \A i \in Positions(fragments) : fragments[i].data.kind = "File"

\* C33: a read of a built-in file, of the .fa or .seq file of a fragment or
\* of a subfragment, at any offset and size, is answered with data or with
\* an error: no storage path is asked for bytes it does not hold
C33_ReadNeverFails ==
    [][(/\ reply'.op = "read"
        /\ reply'.ino \in BuiltinFiles \cup FileInos(fragments, <<>>, subfragments))
         => reply'.status \in {"ok"} \cup Errors]_vars

\* the positions (from 1) of the header marks that open a line of b
HeaderMarks(b) == {k \in 1..Len(b) : b[k] = GT /\ (k = 1 \/ b[k - 1] = NL)}

\* the n-th smallest element of a set of numbers
NthOf(S, n) == CHOOSE k \in S : Cardinality({j \in S : j <= k}) = n

\* the position of the newline that ends the line holding position k, or 0
LineEnd(b, k) ==
    IF \E e \in k..Len(b) : b[e] = NL
    THEN CHOOSE e \in k..Len(b) : b[e] = NL /\ \A j \in k..(e - 1) : b[j] # NL
    ELSE 0

\* the range of the body that follows the header at position h: from the
\* offset just after the newline of the header line to the offset just past
\* the last byte of the body, the newline that ends its last line left out
StatedRange(b, h) ==
    LET start == LineEnd(b, h)
        later == {k \in HeaderMarks(b) : k > h}
        next == IF later = {} THEN Len(b) + 1 ELSE NthOf(later, 1)
        end == IF next - 1 > start /\ b[next - 1] = NL THEN next - 2 ELSE next - 1
    IN  <<start, end>>

\* C34: in both modes the reader emits one sequence per header line, in
\* order, and the range of each starts just after the newline of its header
\* line and ends just past its last body byte: it holds no byte of its
\* header, none of the next header line and not the newline that ends the
\* body
C34_ReaderRanges ==
    reply.op = "parse"
      => /\ Len(reply.out) = Cardinality(HeaderMarks(disk))
         /\ \A n \in 1..Len(reply.out) :
               LineEnd(disk, NthOf(HeaderMarks(disk), n)) # 0
                  => reply.out[n].pos = StatedRange(disk, NthOf(HeaderMarks(disk), n))

\* C35: when the last line of the source has no newline, the end of every
\* range the reader emits is at most the length of the source
C35_RangesInFile ==
    (reply.op = "parse" /\ disk # <<>> /\ disk[Len(disk)] # NL)
      => \A n \in 1..Len(reply.out) : reply.out[n].pos[2] <= Len(disk)

\* the entries readdir lists in a directory of fragment files
Listed(dir) == {readdir(Model, dir).v[k] : k \in DOMAIN readdir(Model, dir).v}

\* C36: while the filesystem is mounted, after any operations, readdir and
\* lookup agree in seqs/ and fasta/: every name listed is
\* found by lookup, with the inode listed for it, and every name lookup
\* finds is listed
C36_ReaddirLookupAgree ==
    phase = "mounted" =>
    \A dir \in {SEQ_DIR, FASTA_DIR} :
        /\ \A e \in Listed(dir) :
              /\ LookupFragmentFile(Model, dir, e[2]).some
              /\ LookupFragmentFile(Model, dir, e[2]).v.ino = e[1]
        /\ \A name \in LookupNames \cup {e[2] : e \in Listed(dir)} :
              LookupFragmentFile(Model, dir, name).some
                 => \E e \in Listed(dir) : e[2] = name

\* C37: in a run where, since the load, only lookup, getattr, read and
\* readdir and refused operations occurred, fsync, fsyncdir, destroy and the
\* concretize of drop create no temporary file and leave the source byte for
\* byte as it was, and with it the backings and the dirty flag
C37_CleanNoRewrite ==
    [][reply'.op \in {"fsync", "fsyncdir", "destroy", "drop"}
         => /\ reply'.status = "ok"
            /\ disk' = disk
            /\ tmp' = None
            /\ ~dirty /\ ~dirty'
            /\ \A i \in Positions(fragments) : fragments'[i].data = fragments[i].data
            /\ Len(fragments') = Len(fragments)]_vars

\* under the RAM cache, after a read and a lookup in get/, the drop has left
\* the source of the load, which is not what a rewrite would produce
C37_Witness ==
    /\ reply.op = "drop" /\ reply.status = "ok"
    /\ settings.cache = "RAM"
    /\ nops < MaxObsOps - 1
    /\ disk = Src1
    /\ disk # Serialization(fragments, disk)
    /\ \E i \in Positions(fragments) : fragments[i].data.kind = "PureBuffer"

\* C38: with overwrite allowed, a rename in seqs/ of the file <id>.seq of a
\* fragment to the name <id>.seq replies ok and leaves the fragments as they
\* were: the same ids, file names and inodes in the same order, and the same
\* bodies
C38_RenameSameName ==
    [][(/\ RenameStep
        /\ reply'.parent = SEQ_DIR
        /\ reply'.newname = reply'.name
        /\ ~settings.no_overwrite
        /\ Designated(fragments, SEQ_DIR, reply'.name) # {})
          => /\ reply'.status = "ok"
             /\ Files(fragments') = Files(fragments)
             /\ Bodies(fragments', disk') = Bodies(fragments, disk)]_vars

\* the positions of the fragments whose .seq file has the inode
SeqOwners(frs, ino) == {i \in Positions(frs) : frs[i].seq_file.ino = ino}

\* C39: a write or a setattr on the inode of the .seq file of a fragment
\* leaves every other fragment (id, comment, backing and body, files, inodes,
\* sizes) as it was, keeps the length and the order of the list, and leaves
\* the pending appends and the source as they were
C39_WriteFrame ==
    [][(reply'.op \in {"write", "setattr"} /\ SeqOwners(fragments, reply'.ino) # {})
          => /\ Len(fragments') = Len(fragments)
             /\ \A j \in Positions(fragments) \ SeqOwners(fragments, reply'.ino) :
                   fragments'[j] = fragments[j]
             /\ \A j \in SeqOwners(fragments, reply'.ino) :
                   /\ fragments'[j].id = fragments[j].id
                   /\ fragments'[j].seq_file.ino = reply'.ino
                   /\ fragments'[j].fasta_file.ino = fragments[j].fasta_file.ino
             /\ pending_appends' = pending_appends
             /\ disk' = disk]_vars

\* a write into the .seq file of the first of two fragments has made its
\* backing a buffer while a pending append exists and the second fragment has
\* the backing of the load
C39_Witness ==
    /\ reply.op = "write" /\ reply.status = "ok"
    /\ Len(fragments) = 2
    /\ reply.ino = fragments[1].seq_file.ino
    /\ fragments[1].data.kind = "Buffer"
    /\ fragments[2].data.kind # "Buffer"
    /\ DOMAIN pending_appends # {}

\* the answer to a read of the whole .seq file of a fragment: from offset 0,
\* as many bytes as the size attribute of the file
FullRead(f, dsk) == chunk(f, dsk, 0, f.seq_file.size)

\* C40: when a concretize has run, every fragment has the size attributes of
\* its .seq and .fa files it had before, and a read of its whole .seq file
\* is answered with the same bytes as before
C40_ConcretizeTransparent ==
    [][ConcretizeStep
         => /\ Len(fragments') = Len(fragments)
            /\ \A i \in Positions(fragments) :
                  /\ fragments'[i].seq_file.size = fragments[i].seq_file.size
                  /\ fragments'[i].fasta_file.size = fragments[i].fasta_file.size
                  /\ FullRead(fragments'[i], disk') = FullRead(fragments[i], disk)]_vars

=============================================================================
